---- MODULE Spec2Model ----
(***************************************************************************)
(* Model of the citation-faithful answer-assembly core of MARP-Guide-AI:  *)
(*   - IndexingService.chunk_document (services/indexing)                 *)
(*   - the citation resolver inlined in chat and in                       *)
(*     compare_models.generate_with_model (services/chat)                 *)
(* Texts are sequences of one-character strings, so that str.replace,     *)
(* re.findall, re.sub, str.strip, str.lower, int() and f"{n}" are modelled *)
(* by what they do to the characters.                                     *)
(***************************************************************************)
EXTENDS Integers, Sequences, FiniteSets, TLC

VARIABLES
    \* ---- chunk_document ----
    tokens,          \* tokenizer.encode(text): sequence of token ids
    max_tokens,      \* parameter max_tokens
    overlap_tokens,  \* parameter overlap_tokens
    start_idx,       \* local start_idx
    chunks,          \* local chunks: sequence of [text, metadata]
    heap,            \* dict objects: heap[id] is the content of dict id
    windows,         \* history: the <<start_idx, end_idx>> slices visited
    cpc,             \* position in chunk_document: "loop" | "done"
    \* ---- citation resolver ----
    site,            \* "chat" | "compare": which inlined copy runs
    ranked_chunks,   \* chunks returned by retrieval_client.search
    raw_answer,      \* the generator's output, kept for reference
    answer,          \* local answer (rewritten in place)
    origin,          \* history: per character of answer, the number of the
                     \* raw marker occurrence it descends from (-1: none)
    citations,       \* local citations
    cited_numbers,   \* local cited_numbers
    citation_mapping,\* local citation_mapping (function on its keys)
    mapping_order,   \* insertion order of citation_mapping's keys (dict order)
    final_cited_numbers, \* local final_cited_numbers
    rpc,             \* position in the resolver
    resolve_run,     \* history: 1 in the first resolution of the inputs, 2 in a repeat
    first_result,    \* history: <<[answer, citations]>> of the first resolution, else <<>>
    \* ---- build_rag_context ----
    context_chunks,  \* parameter chunks
    max_tokens_param,\* parameter max_tokens as passed: <<n>>, or <<>> for None
    context_max_tokens, \* local max_tokens after line 35
    context_idx,     \* loop variable idx: rank of the chunk looked at next
    context_parts,   \* local context_parts
    current_tokens,  \* local current_tokens
    context_text,    \* the returned string
    bpc,             \* position in build_rag_context
    \* ---- chat and compare_models (services/chat/chat_service.py) ----
    endpoint,        \* "chat" | "compare": the handler that runs
    ppc,             \* position in the handler
    reformulation,   \* config.ENABLE_QUERY_REFORMULATION
    models,          \* config.COMPARISON_MODELS: sequence of [id, name]
    query,           \* req.query
    search_query,    \* local search_query
    retrieved,       \* local chunks: the list retrieval_client.search returned
    prompt,          \* local prompt: the numbered parts of its CONTEXT block
    futures,         \* compare_models: per model, the state of its future
    results,         \* compare_models: local results
    response,        \* what the handler gave back to the client
    events,          \* analytics events published by this request
    calls,           \* history: the collaborators invoked, in order
    \* ---- search (services/retrieval/retrieval_service.py) ----
    top_k,           \* req.top_k
    hits,            \* local hits: what search_similar_chunks returned
    hit_no,          \* loop position: the hit looked at next
    seen_texts,      \* local seen_texts
    search_results,  \* local results
    spc,             \* position in search
    \* ---- indexing worker (services/indexing/worker.py, indexing_service.py) ----
    body,            \* the delivered message body
    pages,           \* what pages.jsonl holds: per page, the chunks chunk_document makes of it
    page_no,         \* loop position: the page chunked next
    all_chunks,      \* len(all_chunks)
    stored,          \* the chunks of the document are in Qdrant
    indexing_calls,  \* history: the steps invoked, in order
    published,       \* history: the events handed to the broker
    acks,            \* history: basic_ack / basic_nack calls on the delivery
    ipc,             \* position in process_document_extracted
    \* ---- session check (services/chat/chat_service.py, validate_session) ----
    authorization,   \* the Authorization header (empty: not sent)
    store,           \* what the session store holds for the token, or that it fails
    token,           \* local token
    session,         \* what validate_session answered
    vpc              \* position in the request: header, lookup, rejected, validated, entered

chunkVars == <<tokens, max_tokens, overlap_tokens, start_idx, chunks, heap, windows, cpc>>
resVars == <<site, ranked_chunks, raw_answer, answer, origin, citations, cited_numbers,
             citation_mapping, mapping_order, final_cited_numbers, rpc,
             resolve_run, first_result>>
promptVars == <<context_chunks, max_tokens_param, context_max_tokens, context_idx,
                context_parts, current_tokens, context_text, bpc>>
pipeVars == <<endpoint, ppc, reformulation, models, query, search_query, retrieved, prompt,
              futures, results, response, events, calls>>
searchVars == <<top_k, hits, hit_no, seen_texts, search_results, spc>>
coreVars == <<chunkVars, resVars, promptVars, pipeVars>>
indexVars == <<body, pages, page_no, all_chunks, stored, indexing_calls, published, acks, ipc>>
sessionVars == <<authorization, store, token, session, vpc>>
laterVars == <<searchVars, indexVars, sessionVars>>
vars == <<coreVars, laterVars>>

\* what the steps of one component leave alone
notChunkVars == <<resVars, promptVars, pipeVars, laterVars>>
notResVars == <<chunkVars, promptVars, pipeVars, laterVars>>
notPromptVars == <<chunkVars, resVars, pipeVars, laterVars>>
notSearchVars == <<coreVars, indexVars, sessionVars>>
notIndexVars == <<coreVars, searchVars, sessionVars>>
notSessionVars == <<chunkVars, resVars, promptVars, searchVars, indexVars>>

(***************************************************************************)
(* Bounds of the model                                                     *)
(***************************************************************************)
MaxLen == 8          \* longest enumerated token sequence
MaxMaxTokens == 4    \* largest enumerated max_tokens
MaxOverlap == 4      \* largest enumerated overlap_tokens
MaxChunks == 2       \* longest enumerated list of retrieved chunks
MaxSegs == 2         \* most segments in an enumerated generator answer

(***************************************************************************)
(* Generic helpers                                                         *)
(***************************************************************************)
Min(a, b) == IF a < b THEN a ELSE b

Range(s) == {s[i] : i \in DOMAIN s}

\* All sequences over S of length 0..n
SeqsUpTo(S, n) == UNION {[1..k -> S] : k \in 0..n}

Max(a, b) == IF a > b THEN a ELSE b

\* Python's slice index: a negative index counts from the end; both clip to 0..n
SliceIndex(i, n) == IF i < 0 THEN Max(i + n, 0) ELSE Min(i, n)

\* Python slice s[a:b]: 0-based, end exclusive
Slice(s, a, b) ==
    LET lo == SliceIndex(a, Len(s))
        hi == SliceIndex(b, Len(s))
    IN IF lo < hi THEN [i \in 1..(hi - lo) |-> s[lo + i]] ELSE <<>>

\* concatenation of a sequence of sequences (halving keeps the recursion shallow)
RECURSIVE Flatten(_)
Flatten(ss) ==
    IF ss = <<>> THEN <<>>
    ELSE IF Len(ss) = 1 THEN ss[1]
    ELSE LET h == Len(ss) \div 2
         IN Flatten(SubSeq(ss, 1, h)) \o Flatten(SubSeq(ss, h + 1, Len(ss)))

SetMin(S) == CHOOSE x \in S : \A y \in S : x <= y
SetMax(S) == CHOOSE x \in S : \A y \in S : x >= y

(***************************************************************************)
(* Characters                                                              *)
(***************************************************************************)
Whitespace == {" ", "\n", "\t"}

\* str.strip(): drop leading and trailing whitespace
Strip(s) ==
    LET solid == {i \in DOMAIN s : s[i] \notin Whitespace}
    IN IF solid = {} THEN <<>> ELSE SubSeq(s, SetMin(solid), SetMax(solid))

(***************************************************************************)
(* Tokenizer (collaborator): token id -> the text it decodes to            *)
(***************************************************************************)
TokSpace == 1
TokWord == 2
TokenIds == {TokSpace, TokWord}

Vocab(t) == IF t = TokSpace THEN <<" ">> ELSE <<"a">>

\* tokenizer.decode(chunk_tokens, skip_special_tokens=True)
Decode(toks) == Flatten([i \in DOMAIN toks |-> Vocab(toks[i])])

(***************************************************************************)
(* IndexingService.chunk_document                                          *)
(***************************************************************************)
DefaultMaxTokens == 200
DefaultOverlapTokens == 50

\* the caller's metadata dict is object 1 of the heap
CallerMetadata == 1
MetadataValue == [title |-> "Test", page |-> 1, url |-> "http://example.com", document_id |-> "d1"]

\* (mutation of Step: the overlap is added instead of subtracted)
StepOverlapAdded(mx, ov) == mx + ov

\* start_idx += max_tokens - overlap_tokens
Step(mx, ov) == mx - ov

\* end_idx = min(start_idx + max_tokens, len(tokens))
EndIdx(st, mx, n) == Min(st + mx, n)

\* chunk_tokens = tokens[start_idx:end_idx]
\* chunk_text = tokenizer.decode(chunk_tokens, skip_special_tokens=True).strip()
ChunkText(toks, st, mx) == Strip(Decode(Slice(toks, st, EndIdx(st, mx, Len(toks)))))

\* metadata.copy(): a new dict object with the same content
MetadataCopy(h, id) == [obj |-> Len(h) + 1, heap |-> Append(h, h[id])]

\* (mutation of EmitChunk: the `if chunk_text` test is missing)
EmitChunkUnchecked(cs, h, chunk_text) ==
    LET c == MetadataCopy(h, CallerMetadata)
    IN [chunks |-> Append(cs, [text |-> chunk_text, metadata |-> c.obj]), heap |-> c.heap]

\* if chunk_text: chunks.append({"text": chunk_text, "metadata": metadata.copy()})
EmitChunk(cs, h, chunk_text) ==
    IF chunk_text # <<>>
    THEN LET c == MetadataCopy(h, CallerMetadata)
         IN [chunks |-> Append(cs, [text |-> chunk_text, metadata |-> c.obj]), heap |-> c.heap]
    ELSE [chunks |-> cs, heap |-> h]

ChunkerIdle ==
    /\ tokens = <<>>
    /\ max_tokens = DefaultMaxTokens
    /\ overlap_tokens = DefaultOverlapTokens
    /\ start_idx = 0
    /\ chunks = <<>>
    /\ heap = <<>>
    /\ windows = <<>>
    /\ cpc = "idle"

ResolverIdle ==
    /\ site = "chat"
    /\ ranked_chunks = <<>>
    /\ raw_answer = <<>>
    /\ answer = <<>>
    /\ origin = <<>>
    /\ citations = <<>>
    /\ cited_numbers = {}
    /\ citation_mapping = <<>>
    /\ mapping_order = <<>>
    /\ final_cited_numbers = {}
    /\ rpc = "idle"
    /\ resolve_run = 0
    /\ first_result = <<>>

PromptIdle ==
    /\ context_chunks = <<>>
    /\ max_tokens_param = <<>>
    /\ context_max_tokens = 0
    /\ context_idx = 0
    /\ context_parts = <<>>
    /\ current_tokens = 0
    /\ context_text = <<>>
    /\ bpc = "idle"

NoResponse == [status |-> "none", answer |-> <<>>, citations |-> <<>>, results |-> <<>>]

PipelineIdle ==
    /\ endpoint = "chat"
    /\ ppc = "idle"
    /\ reformulation = FALSE
    /\ models = <<>>
    /\ query = <<>>
    /\ search_query = <<>>
    /\ retrieved = <<>>
    /\ prompt = <<>>
    /\ futures = <<>>
    /\ results = <<>>
    /\ response = NoResponse
    /\ events = <<>>
    /\ calls = <<>>

SearchIdle ==
    /\ top_k = 0
    /\ hits = <<>>
    /\ hit_no = 0
    /\ seen_texts = {}
    /\ search_results = <<>>
    /\ spc = "idle"

IndexIdle ==
    /\ body = <<>>
    /\ pages = <<>>
    /\ page_no = 0
    /\ all_chunks = 0
    /\ stored = FALSE
    /\ indexing_calls = <<>>
    /\ published = <<>>
    /\ acks = <<>>
    /\ ipc = "idle"

NoUser == [user_id |-> "", email |-> ""]
NoSession == [status |-> 0, detail |-> "", user |-> NoUser]

SessionIdle ==
    /\ authorization = <<>>
    /\ store = "none"
    /\ token = <<>>
    /\ session = NoSession
    /\ vpc = "idle"

\* the components modelled after the answer-assembly core are not running
LaterIdle == SearchIdle /\ IndexIdle /\ SessionIdle

CoreIdle == ChunkerIdle /\ ResolverIdle /\ PromptIdle /\ PipelineIdle

\* the test's call: 250 tokens with the default max_tokens=200, overlap_tokens=50
DefaultCall ==
    /\ tokens = [i \in 1..250 |-> TokWord]
    /\ max_tokens = DefaultMaxTokens
    /\ overlap_tokens = DefaultOverlapTokens

ChunkInit ==
    /\ \/ /\ tokens \in SeqsUpTo(TokenIds, MaxLen)
          /\ max_tokens \in 1..MaxMaxTokens
          /\ overlap_tokens \in 0..MaxOverlap
       \/ DefaultCall
    /\ start_idx = 0
    /\ chunks = <<>>
    /\ heap = <<MetadataValue>>
    /\ windows = <<>>
    /\ cpc = "loop"
    /\ ResolverIdle
    /\ PromptIdle
    /\ PipelineIdle
    /\ LaterIdle

\* One iteration of `while start_idx < len(tokens)`.  A call whose step is
\* not positive never leaves the loop; the model follows it for at most
\* len(tokens) + 1 iterations.
ChunkWindow ==
    /\ cpc = "loop"
    /\ start_idx < Len(tokens)
    /\ Len(windows) <= Len(tokens)
    /\ chunks' = EmitChunk(chunks, heap, ChunkText(tokens, start_idx, max_tokens)).chunks
    /\ heap' = EmitChunk(chunks, heap, ChunkText(tokens, start_idx, max_tokens)).heap
    /\ windows' = Append(windows, <<start_idx, EndIdx(start_idx, max_tokens, Len(tokens))>>)
    /\ start_idx' = start_idx + Step(max_tokens, overlap_tokens)
    /\ UNCHANGED <<tokens, max_tokens, overlap_tokens, cpc>>
    /\ UNCHANGED notChunkVars

\* the loop condition fails: return chunks
ChunkReturn ==
    /\ cpc = "loop"
    /\ ~(start_idx < Len(tokens))
    /\ cpc' = "done"
    /\ UNCHANGED <<tokens, max_tokens, overlap_tokens, start_idx, chunks, heap, windows>>
    /\ UNCHANGED notChunkVars

ChunkNext == ChunkWindow \/ ChunkReturn

ChunkSpec == ChunkInit /\ [][ChunkNext]_vars

(***************************************************************************)
(* Python string operations on character sequences                         *)
(***************************************************************************)
Digits == <<"0", "1", "2", "3", "4", "5", "6", "7", "8", "9">>

IsDigit(c) == c \in Range(Digits)

DigitVal(c) == (CHOOSE i \in DOMAIN Digits : Digits[i] = c) - 1

\* int(match) for a non-empty run of decimal digits (leading zeros allowed)
RECURSIVE ParseInt(_)
ParseInt(ds) ==
    IF ds = <<>> THEN 0
    ELSE 10 * ParseInt(SubSeq(ds, 1, Len(ds) - 1)) + DigitVal(ds[Len(ds)])

\* f"{n}" for n >= 0: decimal digits without leading zeros
RECURSIVE IntToStr(_)
IntToStr(n) ==
    IF n < 10 THEN <<Digits[n + 1]>>
    ELSE IntToStr(n \div 10) \o <<Digits[(n % 10) + 1]>>

UpperCase == <<"A", "B", "C", "D", "E", "F", "G", "H", "I", "J", "K", "L", "M",
               "N", "O", "P", "Q", "R", "S", "T", "U", "V", "W", "X", "Y", "Z">>
LowerCase == <<"a", "b", "c", "d", "e", "f", "g", "h", "i", "j", "k", "l", "m",
               "n", "o", "p", "q", "r", "s", "t", "u", "v", "w", "x", "y", "z">>

\* str.lower()
LowerChar(c) ==
    IF c \in Range(UpperCase)
    THEN LowerCase[CHOOSE i \in DOMAIN UpperCase : UpperCase[i] = c]
    ELSE c

Lower(s) == [i \in DOMAIN s |-> LowerChar(s[i])]

\* whether `sub` occurs in s at position p (1-based)
OccursAt(s, sub, p) ==
    /\ p >= 1
    /\ p + Len(sub) - 1 <= Len(s)
    /\ \A j \in DOMAIN sub : s[p + j - 1] = sub[j]

\* `sub in s`
Contains(s, sub) == \E p \in 1..(Len(s) + 1) : OccursAt(s, sub, p)

\* The occurrences of `old` that str.replace rewrites: leftmost first, never
\* overlapping an occurrence already taken.
RECURSIVE TakenFrom(_, _, _)
TakenFrom(s, old, p0) ==
    LET occ == {p \in p0..Len(s) : OccursAt(s, old, p)}
    IN IF occ = {} THEN {}
       ELSE LET p == SetMin(occ) IN {p} \cup TakenFrom(s, old, p + Len(old))

\* s.replace(old, new) on a text whose characters carry a tag (field o); the
\* characters written for an occurrence inherit the tag of its first character
ReplaceTagged(t, old, new) ==
    LET s == [i \in DOMAIN t |-> t[i].c]
        taken == IF old = <<>> THEN {} ELSE TakenFrom(s, old, 1)
        covered == {i \in DOMAIN t : \E p \in taken : p < i /\ i < p + Len(old)}
        piece(i) == IF i \in taken THEN [j \in DOMAIN new |-> [c |-> new[j], o |-> t[i].o]]
                    ELSE IF i \in covered THEN <<>>
                    ELSE <<t[i]>>
    IN Flatten([i \in DOMAIN t |-> piece(i)])

Tagged(s, o) == [i \in DOMAIN s |-> [c |-> s[i], o |-> o[i]]]
Chars(t) == [i \in DOMAIN t |-> t[i].c]
Tags(t) == [i \in DOMAIN t |-> t[i].o]

\* s.replace(old, new)
Replace(s, old, new) == Chars(ReplaceTagged(Tagged(s, [i \in DOMAIN s |-> -1]), old, new))

\* The matches of the regular expression \[\d+\] in s, as <<start, end>>
\* positions (1-based, inclusive).  A match holds one "[" only, at its
\* start, so two matches never overlap and the leftmost scan of re.findall
\* and re.sub finds every one of them.
MarkerEnd(s, p) ==
    IF p \in DOMAIN s /\ s[p] = "["
    THEN LET stop == {q \in (p + 1)..Len(s) : ~IsDigit(s[q])}
         IN IF stop = {} THEN 0
            ELSE LET q == SetMin(stop)
                 IN IF s[q] = "]" /\ q > p + 1 THEN q ELSE 0
    ELSE 0

Markers(s) == {<<p, MarkerEnd(s, p)>> : p \in {q \in DOMAIN s : MarkerEnd(s, q) > 0}}

MarkerNumber(s, m) == ParseInt(SubSeq(s, m[1] + 1, m[2] - 1))

\* set(int(match) for match in re.findall(r"\[(\d+)\]", s))
FindCited(s) == {MarkerNumber(s, m) : m \in Markers(s)}

\* the positions of s that re.sub(r"\[\d+\]", "", s) keeps
KeptPositions(s) == {i \in DOMAIN s : \A m \in Markers(s) : i < m[1] \/ i > m[2]}

\* re.sub(r"\[\d+\]", "", s)
SubMarkers(s) ==
    LET keep == KeptPositions(s)
    IN Flatten([i \in DOMAIN s |-> IF i \in keep THEN <<s[i]>> ELSE <<>>])

\* history: the tags of the characters that re.sub(...).strip() keeps
StripMarkersTagged(t) ==
    LET s == Chars(t)
        keep == KeptPositions(s)
        u == Flatten([i \in DOMAIN t |-> IF i \in keep THEN <<t[i]>> ELSE <<>>])
        solid == {i \in DOMAIN u : u[i].c \notin Whitespace}
    IN IF solid = {} THEN <<>> ELSE SubSeq(u, SetMin(solid), SetMax(solid))

\* f"[{n}]", f"<<CITE_{n}>>", f"<<FINAL_{n}>>"
Bracket(n) == <<"[">> \o IntToStr(n) \o <<"]">>
CitePlaceholder(n) == <<"<", "<", "C", "I", "T", "E", "_">> \o IntToStr(n) \o <<">", ">">>
FinalPlaceholder(n) == <<"<", "<", "F", "I", "N", "A", "L", "_">> \o IntToStr(n) \o <<">", ">">>

\* sorted(S) and sorted(S, reverse=True) for a finite set of integers
RECURSIVE Sorted(_)
Sorted(S) == IF S = {} THEN <<>> ELSE <<SetMin(S)>> \o Sorted(S \ {SetMin(S)})

RECURSIVE SortedReverse(_)
SortedReverse(S) == IF S = {} THEN <<>> ELSE <<SetMax(S)>> \o SortedReverse(S \ {SetMax(S)})

(***************************************************************************)
(* The citation resolver: chat (chat_service.py 221-304) and               *)
(* compare_models.generate_with_model (chat_service.py 414-492)            *)
(***************************************************************************)
insufficient_info_phrases == <<
    <<"d", "o", "e", "s", " ", "n", "o", "t", " ", "c", "o", "n", "t", "a", "i", "n">>,
    <<"d", "o", "e", "s", "n", "'", "t", " ", "c", "o", "n", "t", "a", "i", "n">>,
    <<"d", "o", " ", "n", "o", "t", " ", "c", "o", "n", "t", "a", "i", "n">>,
    <<"d", "o", "n", "'", "t", " ", "c", "o", "n", "t", "a", "i", "n">>,
    <<"n", "o", "t", " ", "e", "n", "o", "u", "g", "h", " ", "i", "n", "f", "o", "r", "m", "a", "t", "i", "o", "n">>,
    <<"c", "a", "n", "n", "o", "t", " ", "a", "n", "s", "w", "e", "r">>,
    <<"c", "a", "n", "'", "t", " ", "a", "n", "s", "w", "e", "r">>,
    <<"u", "n", "a", "b", "l", "e", " ", "t", "o", " ", "a", "n", "s", "w", "e", "r">>,
    <<"n", "o", " ", "i", "n", "f", "o", "r", "m", "a", "t", "i", "o", "n">>>>

\* answer_start = answer_lower[:150]
AnswerStartLen == 150

RejectionChat ==
    <<"T", "h", "e", " ", "M", "A", "R", "P", " ", "d", "o", "c", "u", "m",
      "e", "n", "t", "s", " ", "p", "r", "o", "v", "i", "d", "e", "d", " ",
      "d", "o", " ", "n", "o", "t", " ", "c", "o", "n", "t", "a", "i", "n",
      " ", "i", "n", "f", "o", "r", "m", "a", "t", "i", "o", "n", " ", "a",
      "b", "o", "u", "t", " ", "t", "h", "i", "s", " ", "t", "o", "p", "i",
      "c", ".", " ", "P", "l", "e", "a", "s", "e", " ", "t", "r", "y", " ",
      "a", "s", "k", "i", "n", "g", " ", "a", "b", "o", "u", "t", " ", "M",
      "A", "R", "P", " ", "r", "e", "g", "u", "l", "a", "t", "i", "o", "n",
      "s", ",", " ", "p", "o", "l", "i", "c", "i", "e", "s", ",", " ", "o",
      "r", " ", "p", "r", "o", "c", "e", "d", "u", "r", "e", "s", ".">>

RejectionCompare ==
    <<"T", "h", "e", " ", "M", "A", "R", "P", " ", "d", "o", "c", "u", "m",
      "e", "n", "t", "s", " ", "p", "r", "o", "v", "i", "d", "e", "d", " ",
      "d", "o", " ", "n", "o", "t", " ", "c", "o", "n", "t", "a", "i", "n",
      " ", "i", "n", "f", "o", "r", "m", "a", "t", "i", "o", "n", " ", "a",
      "b", "o", "u", "t", " ", "t", "h", "i", "s", " ", "t", "o", "p", "i",
      "c", ".">>

\* (mutation of RejectionText: chat's text pasted at both call sites)
RejectionTextChatOnly(s) == RejectionChat

\* the text that replaces an answer without citations, at each call site
RejectionText(s) == IF s = "chat" THEN RejectionChat ELSE RejectionCompare

\* (mutation of HasInsufficientInfo: the phrases looked for in the whole answer)
HasInsufficientInfoAnywhere(a) ==
    \E k \in DOMAIN insufficient_info_phrases :
        Contains(Lower(a), insufficient_info_phrases[k])

\* has_insufficient_info = any(phrase in answer_start for phrase in ...)
HasInsufficientInfo(a) ==
    LET answer_start == Slice(Lower(a), 0, AnswerStartLen)
    IN \E k \in DOMAIN insufficient_info_phrases :
           Contains(answer_start, insufficient_info_phrases[k])

\* Python truth value of a title (str) and of a page (int)
TruthyStr(x) == x # ""
TruthyInt(x) == x # 0

\* citation_key = (chunk.get("title", ""), chunk.get("page", 0))
CitationKey(chunk) == <<chunk.title, chunk.page>>

\* Citation(title=..., page=..., url=...)
MakeCitation(chunk) == [title |-> chunk.title, page |-> chunk.page, url |-> chunk.url]

\* for old_idx, new_idx in citation_mapping.items(): the first key, in
\* insertion order, whose chunk has this citation_key
FirstWithKey(cs, order, key) ==
    order[SetMin({k \in DOMAIN order : CitationKey(cs[order[k]]) = key})]

\* one pass of `for idx, chunk in enumerate(chunks, start=1)`
DedupChunk(st, cs, cited, idx) ==
    LET key == CitationKey(cs[idx])
    IN IF idx \notin cited THEN st
       ELSE IF key \notin st.seen /\ TruthyStr(key[1]) /\ TruthyInt(key[2])
       THEN [citations |-> Append(st.citations, MakeCitation(cs[idx])),
             seen |-> st.seen \cup {key},
             mapping |-> st.mapping @@ (idx :> (Len(st.citations) + 1)),
             order |-> Append(st.order, idx)]
       ELSE IF key \in st.seen
       THEN [st EXCEPT !.mapping = st.mapping @@ (idx :> st.mapping[FirstWithKey(cs, st.order, key)]),
                       !.order = Append(st.order, idx)]
       ELSE st

RECURSIVE DedupFrom(_, _, _, _)
DedupFrom(st, cs, cited, idx) ==
    IF idx > Len(cs) THEN st
    ELSE DedupFrom(DedupChunk(st, cs, cited, idx), cs, cited, idx + 1)

\* (mutation of DeduplicateCitations: every chunk taken, cited or not)
DeduplicateCitationsOfAll(cs, cited) ==
    DedupFrom([citations |-> <<>>, seen |-> {}, mapping |-> <<>>, order |-> <<>>],
              cs, DOMAIN cs, 1)

\* lines 254-273: deduplicate citations and build the mapping
DeduplicateCitations(cs, cited) ==
    DedupFrom([citations |-> <<>>, seen |-> {}, mapping |-> <<>>, order |-> <<>>], cs, cited, 1)

\* (mutation of ToCitePlaceholders: [old_num] rewritten to [new_num] directly)
RECURSIVE ToCitePlaceholdersDirect(_, _, _)
ToCitePlaceholdersDirect(t, nums, mapping) ==
    IF nums = <<>> THEN t
    ELSE LET old_num == Head(nums)
         IN ToCitePlaceholdersDirect(
                IF old_num \in DOMAIN mapping
                THEN ReplaceTagged(t, Bracket(old_num), Bracket(mapping[old_num]))
                ELSE t,
                Tail(nums), mapping)

\* for old_num in sorted(cited_numbers, reverse=True):
\*     if old_num in citation_mapping:
\*         answer = answer.replace(f"[{old_num}]", f"<<CITE_{new_num}>>")
RECURSIVE ToCitePlaceholders(_, _, _)
ToCitePlaceholders(t, nums, mapping) ==
    IF nums = <<>> THEN t
    ELSE LET old_num == Head(nums)
         IN ToCitePlaceholders(
                IF old_num \in DOMAIN mapping
                THEN ReplaceTagged(t, Bracket(old_num), CitePlaceholder(mapping[old_num]))
                ELSE t,
                Tail(nums), mapping)

\* for new_num in set(citation_mapping.values()):
\*     answer = answer.replace(f"<<CITE_{new_num}>>", f"[{new_num}]")
FromCitePlaceholdersFirstOnly(t, nums) ==
    IF nums = <<>> THEN t
    ELSE ReplaceTagged(t, CitePlaceholder(Head(nums)), Bracket(Head(nums)))

RECURSIVE FromCitePlaceholders(_, _)
FromCitePlaceholders(t, nums) ==
    IF nums = <<>> THEN t
    ELSE FromCitePlaceholders(
             ReplaceTagged(t, CitePlaceholder(Head(nums)), Bracket(Head(nums))), Tail(nums))

\* the orders in which a loop over the set S can meet its elements: the
\* language leaves the iteration order of a set open
IterationOrders(S) == {o \in [1..Cardinality(S) -> S] : Range(o) = S}

\* lines 276-282: renumber citations using placeholders, the loop over
\* set(citation_mapping.values()) meeting the new numbers in the given order
RenumberCitationsIn(t, cited, mapping, order) ==
    FromCitePlaceholders(ToCitePlaceholders(t, SortedReverse(cited), mapping), order)

\* lines 276-282 with the set met in increasing order
RenumberCitations(t, cited, mapping) ==
    RenumberCitationsIn(t, cited, mapping, Sorted(Range(mapping)))

\* citations = [cit for i, cit in enumerate(citations, start=1) if i in final_cited_numbers]
FilterCitations(cits, final) ==
    Flatten([i \in DOMAIN cits |-> IF i \in final THEN <<cits[i]>> ELSE <<>>])

\* final_mapping[old_pos] = new_pos for new_pos, old_pos in enumerate(sorted(final), start=1)
FinalMapping(final) ==
    LET srt == Sorted(final)
    IN [n \in final |-> CHOOSE k \in DOMAIN srt : srt[k] = n]

\* for old_pos in sorted(final_cited_numbers, reverse=True):
\*     answer = answer.replace(f"[{old_pos}]", f"<<FINAL_{new_pos}>>")
RECURSIVE ToFinalPlaceholders(_, _, _)
ToFinalPlaceholders(t, nums, mapping) ==
    IF nums = <<>> THEN t
    ELSE ToFinalPlaceholders(
             ReplaceTagged(t, Bracket(Head(nums)), FinalPlaceholder(mapping[Head(nums)])),
             Tail(nums), mapping)

\* for new_pos in final_mapping.values():
\*     answer = answer.replace(f"<<FINAL_{new_pos}>>", f"[{new_pos}]")
RECURSIVE FromFinalPlaceholders(_, _)
FromFinalPlaceholders(t, nums) ==
    IF nums = <<>> THEN t
    ELSE FromFinalPlaceholders(
             ReplaceTagged(t, FinalPlaceholder(Head(nums)), Bracket(Head(nums))), Tail(nums))

\* sorted(final_cited_numbers) != list(range(1, len(citations) + 1))
NotConsecutive(final, cits) == Sorted(final) # [i \in 1..Len(cits) |-> i]

\* lines 292-302: ensure consecutive numbering
EnsureConsecutive(t, final, cits) ==
    IF final # {} /\ NotConsecutive(final, cits)
    THEN LET fm == FinalMapping(final)
         IN FromFinalPlaceholders(ToFinalPlaceholders(t, SortedReverse(final), fm),
                                  Sorted(Range(fm)))
    ELSE t

\* history: the number of the raw marker each character belongs to (-1: none)
OriginOf(s) ==
    [i \in DOMAIN s |->
        IF \E m \in Markers(s) : m[1] <= i /\ i <= m[2]
        THEN MarkerNumber(s, CHOOSE m \in Markers(s) : m[1] <= i /\ i <= m[2])
        ELSE -1]

\* lines 243-302 (434-492) run on an answer that cites something
ResolveGrounded(ch, raw) ==
    LET cited == FindCited(raw)
        d == DeduplicateCitations(ch, cited)
        t1 == RenumberCitations(Tagged(raw, OriginOf(raw)), cited, d.mapping)
        final == FindCited(Chars(t1))
        kept == FilterCitations(d.citations, final)
    IN [answer |-> Chars(EnsureConsecutive(t1, final, kept)), citations |-> kept]

\* lines 221-304 (414-492) as one function of the call site, the chunks and
\* the generator's answer
Resolve(s, ch, raw) ==
    IF HasInsufficientInfo(raw)
    THEN [answer |-> Strip(SubMarkers(raw)), citations |-> <<>>]
    ELSE IF FindCited(raw) = {}
         THEN [answer |-> RejectionText(s), citations |-> <<>>]
         ELSE ResolveGrounded(ch, raw)

(***************************************************************************)
(* Inputs of the resolver: the retrieved chunks and the generator's answer *)
(***************************************************************************)
\* a retrieved chunk, as far as the resolver reads it: title, page, url
ChunkA == [title |-> "A", page |-> 1, url |-> "u1"]
ChunkB == [title |-> "B", page |-> 2, url |-> "u2"]
ChunkNoTitle == [title |-> "", page |-> 3, url |-> "u3"]
ChunkNoPage == [title |-> "C", page |-> 0, url |-> "u4"]

ChunkKinds == {ChunkA, ChunkB, ChunkNoTitle, ChunkNoPage}

ChunkLists(n) == UNION {[1..k -> ChunkKinds] : k \in 1..n}

\* answers made of markers (in range, out of range, zero) and plain text
MarkerSegments ==
    { <<"[", "0", "]">>, <<"[", "1", "]">>, <<"[", "2", "]">>, <<"[", "3", "]">>,
      <<"[", "7", "]">>, <<"x">> }

\* answers that open with or without an insufficient-information phrase and
\* go on with a marker, loose brackets, blanks and plain text
PhrasePrefixes == { <<>>, <<"C", "a", "n", "n", "o", "t", " ", "a", "n", "s", "w", "e", "r">> }
LooseSegments == { <<"[", "1", "]">>, <<"[">>, <<"2", "]">>, <<" ">>, <<"x">> }

\* the example of the specification's section 8, and four more answers
ExampleChunks == <<ChunkA, ChunkB, ChunkA>>
ExampleAnswers ==
    { <<"F", "a", "c", "t", " ", "o", "n", "e", " ", "[", "1", "]", ".", " ",
        "F", "a", "c", "t", " ", "t", "w", "o", " ", "[", "3", "]", ".">>,
      <<"[", "0", "]", " ", "[", "1", "]", " ", "[", "3", "]">>,
      <<"[", "3", "]", " ", "[", "2", "]">>,
      <<"[", "1", "]", " ", "[", "1", "2", "]">>,
      <<"C", "a", "n", "n", "o", "t", " ", "a", "n", "s", "w", "e", "r", " ",
        "[", "[", "1", "]", "2", "]">> }

\* answers whose only listed phrase lies beyond, or across, character 150
CannotAnswer == <<"c", "a", "n", "n", "o", "t", " ", "a", "n", "s", "w", "e", "r">>
Filler(n) == [i \in 1..n |-> "x"]
LatePhraseAnswers ==
    { Filler(AnswerStartLen) \o CannotAnswer,
      Filler(AnswerStartLen) \o CannotAnswer \o <<" ", "[", "1", "]">>,
      Filler(AnswerStartLen - 3) \o CannotAnswer \o <<" ", "[", "1", "]">> }

ResInputs ==
    \/ /\ ranked_chunks \in ChunkLists(MaxChunks)
       /\ raw_answer \in {Flatten(b) : b \in SeqsUpTo(MarkerSegments, MaxSegs)}
    \/ /\ ranked_chunks \in ChunkLists(1)
       /\ raw_answer \in {p \o Flatten(b) : p \in PhrasePrefixes, b \in SeqsUpTo(LooseSegments, MaxSegs)}
    \/ /\ ranked_chunks = ExampleChunks
       /\ raw_answer \in ExampleAnswers \cup LatePhraseAnswers

ResInit ==
    /\ site \in {"chat", "compare"}
    /\ ResInputs
    /\ answer = raw_answer
    /\ origin = OriginOf(raw_answer)
    /\ citations = <<>>
    /\ cited_numbers = {}
    /\ citation_mapping = <<>>
    /\ mapping_order = <<>>
    /\ final_cited_numbers = {}
    /\ rpc = "phrase_check"
    /\ resolve_run = 1
    /\ first_result = <<>>
    /\ ChunkerIdle
    /\ PromptIdle
    /\ PipelineIdle
    /\ LaterIdle

\* lines 233-240 (426-432): the insufficient-information check
InsufficientInfoCheck ==
    /\ rpc = "phrase_check"
    /\ IF HasInsufficientInfo(answer)
       THEN /\ answer' = Strip(SubMarkers(answer))
            /\ origin' = Tags(StripMarkersTagged(Tagged(answer, origin)))
            /\ citations' = <<>>
            /\ rpc' = "insufficient"
       ELSE /\ rpc' = "extract"
            /\ UNCHANGED <<answer, origin, citations>>
    /\ UNCHANGED <<site, ranked_chunks, raw_answer, cited_numbers, citation_mapping,
                   mapping_order, final_cited_numbers>>
    /\ UNCHANGED <<resolve_run, first_result>>
    /\ UNCHANGED notResVars

\* lines 243-251 (434-440): extract the cited numbers; reject an answer without any
HallucinationCheck ==
    /\ rpc = "extract"
    /\ cited_numbers' = FindCited(answer)
    /\ IF Cardinality(cited_numbers') = 0
       THEN /\ answer' = RejectionText(site)
            /\ origin' = [i \in DOMAIN RejectionText(site) |-> -1]
            /\ citations' = <<>>
            /\ rpc' = "rejected"
       ELSE /\ rpc' = "dedup"
            /\ UNCHANGED <<answer, origin, citations>>
    /\ UNCHANGED <<site, ranked_chunks, raw_answer, citation_mapping, mapping_order,
                   final_cited_numbers>>
    /\ UNCHANGED <<resolve_run, first_result>>
    /\ UNCHANGED notResVars

\* lines 254-273 (443-467)
DeduplicateAndMap ==
    /\ rpc = "dedup"
    /\ citations' = DeduplicateCitations(ranked_chunks, cited_numbers).citations
    /\ citation_mapping' = DeduplicateCitations(ranked_chunks, cited_numbers).mapping
    /\ mapping_order' = DeduplicateCitations(ranked_chunks, cited_numbers).order
    /\ rpc' = "rewrite"
    /\ UNCHANGED <<site, ranked_chunks, raw_answer, answer, origin, cited_numbers,
                   final_cited_numbers>>
    /\ UNCHANGED <<resolve_run, first_result>>
    /\ UNCHANGED notResVars

\* lines 276-282 (470-476)
RewriteNumbers ==
    /\ rpc = "rewrite"
    /\ \E order \in IterationOrders(Range(citation_mapping)) :
           /\ answer' = Chars(RenumberCitationsIn(Tagged(answer, origin), cited_numbers,
                                                  citation_mapping, order))
           /\ origin' = Tags(RenumberCitationsIn(Tagged(answer, origin), cited_numbers,
                                                 citation_mapping, order))
    /\ rpc' = "filter"
    /\ UNCHANGED <<site, ranked_chunks, raw_answer, citations, cited_numbers,
                   citation_mapping, mapping_order, final_cited_numbers>>
    /\ UNCHANGED <<resolve_run, first_result>>
    /\ UNCHANGED notResVars

\* lines 287-288 (478-479)
FilterSurvivors ==
    /\ rpc = "filter"
    /\ final_cited_numbers' = FindCited(answer)
    /\ citations' = FilterCitations(citations, final_cited_numbers')
    /\ rpc' = "renumber"
    /\ UNCHANGED <<site, ranked_chunks, raw_answer, answer, origin, cited_numbers,
                   citation_mapping, mapping_order>>
    /\ UNCHANGED <<resolve_run, first_result>>
    /\ UNCHANGED notResVars

\* lines 292-302 (482-492)
ConsecutiveRenumber ==
    /\ rpc = "renumber"
    /\ answer' = Chars(EnsureConsecutive(Tagged(answer, origin), final_cited_numbers, citations))
    /\ origin' = Tags(EnsureConsecutive(Tagged(answer, origin), final_cited_numbers, citations))
    /\ rpc' = "grounded"
    /\ UNCHANGED <<site, ranked_chunks, raw_answer, citations, cited_numbers,
                   citation_mapping, mapping_order, final_cited_numbers>>
    /\ UNCHANGED <<resolve_run, first_result>>
    /\ UNCHANGED notResVars

ResNext ==
    \/ InsufficientInfoCheck
    \/ HallucinationCheck
    \/ DeduplicateAndMap
    \/ RewriteNumbers
    \/ FilterSurvivors
    \/ ConsecutiveRenumber

ResolverSpec == ResInit /\ [][ResNext]_vars

\* the handler is called again with the same chunks and the same generator
\* output. The locals of the first call do not outlive it; they are left
\* here at the values the first call gave them, which is what a call that
\* read a local before assigning it would see.
ResolveAgain ==
    /\ rpc \in {"insufficient", "rejected", "grounded"}
    /\ resolve_run = 1
    /\ ppc = "idle"
    /\ resolve_run' = 2
    /\ first_result' = <<[answer |-> answer, citations |-> citations]>>
    /\ answer' = raw_answer
    /\ origin' = OriginOf(raw_answer)
    /\ rpc' = "phrase_check"
    /\ UNCHANGED <<site, ranked_chunks, raw_answer, citations, cited_numbers,
                   citation_mapping, mapping_order, final_cited_numbers>>
    /\ UNCHANGED notResVars

RepeatNext == ResNext \/ ResolveAgain

\* the repeated resolutions start from the example of section 8 and from the
\* inputs whose chunks have a page and whose markers are [1], [2] and [3]
RepeatInit ==
    /\ ResInit
    /\ \/ ranked_chunks = ExampleChunks
       \/ /\ ChunkNoPage \notin Range(ranked_chunks)
          /\ FindCited(raw_answer) \subseteq DOMAIN ExampleChunks

RepeatSpec == RepeatInit /\ [][RepeatNext]_vars

(***************************************************************************)
(* Citation resolver: properties                                           *)
(***************************************************************************)
Terminal == rpc \in {"insufficient", "rejected", "grounded"}

\* a listed phrase lies within the first 150 characters of the lower-cased text
PhraseInStart(s) ==
    \E k \in DOMAIN insufficient_info_phrases :
        LET ph == insufficient_info_phrases[k]
        IN \E p \in DOMAIN s :
               /\ p + Len(ph) - 1 <= Len(s)
               /\ p + Len(ph) - 1 <= 150
               /\ \A j \in DOMAIN ph : LowerChar(s[p + j - 1]) = ph[j]

\* the ranks 1..N that the raw answer cites
CitedRanks == FindCited(raw_answer) \cap DOMAIN ranked_chunks

\* the marker occurrences of the final text that descend from the raw marker [i]
OccurrencesOf(i) == {m \in Markers(answer) : origin[m[1]] = i}

\* C1 (as claimed): in every result, the numbers appearing as [n] in the
\* final text are exactly {1, ..., len(citations)}: none is 0, none exceeds
\* len(citations), none is missing.
C1_AnswerInvariantAsClaimed ==
    Terminal => FindCited(answer) = 1..Len(citations)

\* C2 (as claimed): in the Grounded outcome, a marker occurrence that was
\* written [i] in rawAnswer (i a rank of rankedChunks) and reads [k] in the
\* final text has citations[k] carrying the title and page of rankedChunks[i].
C2_TraceabilityAsClaimed ==
    rpc = "grounded" =>
        \A i \in DOMAIN ranked_chunks : \A m \in OccurrencesOf(i) :
            LET k == MarkerNumber(answer, m)
            IN /\ k \in DOMAIN citations
               /\ citations[k].title = ranked_chunks[i].title
               /\ citations[k].page = ranked_chunks[i].page

\* C3 (as claimed): in the Grounded outcome citations never holds two
\* entries with equal (title, page); when several cited ranks share one
\* (title, page) there is exactly one Citation for it and the markers of all
\* those ranks read that citation's number; citations are ordered by the
\* lowest cited rank of their key.
C3_DeduplicationAsClaimed ==
    rpc = "grounded" =>
        /\ \A j, k \in DOMAIN citations :
               j # k => CitationKey(citations[j]) # CitationKey(citations[k])
        /\ \A i, i2 \in CitedRanks :
               (i # i2 /\ CitationKey(ranked_chunks[i]) = CitationKey(ranked_chunks[i2])) =>
                   \E k \in DOMAIN citations :
                       /\ CitationKey(citations[k]) = CitationKey(ranked_chunks[i])
                       /\ \A m \in OccurrencesOf(i) \cup OccurrencesOf(i2) :
                              MarkerNumber(answer, m) = k
        /\ \A j, k \in DOMAIN citations :
               j < k =>
                   \E i \in CitedRanks :
                       /\ CitationKey(ranked_chunks[i]) = CitationKey(citations[j])
                       /\ \A i2 \in CitedRanks :
                              CitationKey(ranked_chunks[i2]) = CitationKey(citations[k]) => i < i2

\* C4 (as claimed): every rawAnswer without any [n] marker ends Rejected:
\* the call site's fixed rejection text with citations = [].
C4_RejectedAsClaimed ==
    (Terminal /\ Markers(raw_answer) = {}) =>
        /\ rpc = "rejected"
        /\ answer = IF site = "chat" THEN RejectionChat ELSE RejectionCompare
        /\ citations = <<>>

\* C4 (amended): every rawAnswer without any [n] marker and without a listed
\* phrase in its first 150 lower-cased characters ends Rejected: the call
\* site's fixed rejection text with citations = [].
C4_RejectedUnlessPhrase ==
    (Terminal /\ Markers(raw_answer) = {} /\ ~PhraseInStart(raw_answer)) =>
        /\ rpc = "rejected"
        /\ answer = IF site = "chat" THEN RejectionChat ELSE RejectionCompare
        /\ citations = <<>>

C4_Witness ==
    /\ rpc = "rejected"
    /\ site = "compare"
    /\ answer = RejectionCompare
    /\ \E i \in DOMAIN raw_answer : raw_answer[i] = "["
    /\ \E i \in DOMAIN raw_answer : raw_answer[i] = "x"

\* C20: resolving the same (rankedChunks, rawAnswer) a second time yields the
\* (finalText, citations) of the first time, and every resolution ends in
\* the one result that the inputs determine, whatever order the set loop
\* took and whatever an earlier resolution left behind.
C20_ResolverDeterminism ==
    Terminal =>
        /\ [answer |-> answer, citations |-> citations] = Resolve(site, ranked_chunks, raw_answer)
        /\ resolve_run = 2 => first_result = <<[answer |-> answer, citations |-> citations]>>

C20_Witness ==
    /\ rpc = "grounded"
    /\ resolve_run = 2
    /\ Cardinality(Range(citation_mapping)) >= 2
    /\ answer # raw_answer
    /\ first_result = <<[answer |-> answer, citations |-> citations]>>

\* C5 (as claimed): when a listed phrase lies in the first 150 lower-cased
\* characters of rawAnswer, the result has citations = [] and its text
\* contains no [n] marker, whatever markers rawAnswer held.
C5_InsufficientAsClaimed ==
    (Terminal /\ PhraseInStart(raw_answer)) =>
        /\ rpc = "insufficient"
        /\ citations = <<>>
        /\ Markers(answer) = {}

\* one simultaneous substitution on s: every marker written [i] with i in
\* the mapping reads [mapping[i]], every other character is kept
SubstituteMarkers(s, mapping) ==
    LET mapped == {m \in Markers(s) :
                      \E i \in DOMAIN mapping : SubSeq(s, m[1], m[2]) = Bracket(i)}
        target(m) == mapping[CHOOSE i \in DOMAIN mapping : SubSeq(s, m[1], m[2]) = Bracket(i)]
        piece(p) == IF \E m \in mapped : m[1] = p
                    THEN Bracket(target(CHOOSE m \in mapped : m[1] = p))
                    ELSE IF \E m \in mapped : m[1] < p /\ p <= m[2] THEN <<>>
                    ELSE <<s[p]>>
    IN Flatten([p \in DOMAIN s |-> piece(p)])

NoPlaceholderIn(s) ==
    /\ ~Contains(s, <<"<", "<", "C", "I", "T", "E", "_">>)
    /\ ~Contains(s, <<"<", "<", "F", "I", "N", "A", "L", "_">>)

PhraseAnywhere(s) ==
    \E k \in DOMAIN insufficient_info_phrases : Contains(Lower(s), insufficient_info_phrases[k])

\* C24: the phrase check comes first and does not look at the markers: an
\* answer with a listed phrase in its first 150 characters ends Insufficient
\* with its own text less its markers, with or without markers; the
\* rejection text is produced only when no phrase matched and there is no
\* marker; a phrase that lies only beyond the first 150 characters never
\* gives Insufficient; and no resolution stops short of one of the three
\* outcomes, which the answer alone selects.
OutcomeByStageOrder ==
    Terminal =>
        /\ rpc = "insufficient" <=> PhraseInStart(raw_answer)
        /\ rpc = "insufficient" => answer = Strip(SubMarkers(raw_answer))
        /\ rpc = "rejected" <=> (~PhraseInStart(raw_answer) /\ Markers(raw_answer) = {})
        /\ answer = RejectionText(site) => rpc = "rejected"
        /\ rpc = "grounded" <=> (~PhraseInStart(raw_answer) /\ Markers(raw_answer) # {})

\* the guards of the resolver's steps: short of an outcome, one of them holds
StepAvailable ==
    \/ rpc \in {"phrase_check", "extract", "dedup", "filter", "renumber"}
    \/ rpc = "rewrite" /\ IterationOrders(Range(citation_mapping)) # {}

C24_StageOrder ==
    /\ OutcomeByStageOrder
    /\ Terminal \/ StepAvailable

\* an answer with a listed phrase beyond character 150 only, and a marker,
\* ended Grounded
C24_Witness ==
    /\ rpc = "grounded"
    /\ PhraseAnywhere(raw_answer)
    /\ ~PhraseInStart(raw_answer)
    /\ Len(raw_answer) > AnswerStartLen

\* C27: every citation of a resolver output carries the title, page and url
\* of a chunk rankedChunks[i] whose number appears as [i] in rawAnswer, so a
\* chunk the raw answer never cited supplies no citation; and the citations
\* are empty in the Insufficient and Rejected outcomes.
C27_NoSpuriousCitations ==
    Terminal =>
        /\ \A k \in DOMAIN citations :
              \E i \in DOMAIN ranked_chunks :
                  /\ Contains(raw_answer, Bracket(i))
                  /\ citations[k].title = ranked_chunks[i].title
                  /\ citations[k].page = ranked_chunks[i].page
                  /\ citations[k].url = ranked_chunks[i].url
        /\ rpc \in {"insufficient", "rejected"} => citations = <<>>

\* a Grounded answer over two different chunks that cites one of them only
C27_Witness ==
    /\ rpc = "grounded"
    /\ Len(citations) = 1
    /\ \E i \in DOMAIN ranked_chunks :
          /\ i \notin FindCited(raw_answer)
          /\ TruthyStr(ranked_chunks[i].title) /\ TruthyInt(ranked_chunks[i].page)
          /\ MakeCitation(ranked_chunks[i]) # citations[1]

OtherSite(s) == IF s = "chat" THEN "compare" ELSE "chat"

\* the outcome of Resolve's result
OutcomeOf(raw) ==
    IF HasInsufficientInfo(raw) THEN "insufficient"
    ELSE IF FindCited(raw) = {} THEN "rejected" ELSE "grounded"

\* C29 (as claimed): the resolver inlined in chat and the one inlined in
\* generate_with_model are one function: what either makes of
\* (rankedChunks, rawAnswer) - outcome, final text, citations - is what the
\* other makes of it.
C29_OneResolverAsClaimed ==
    Terminal =>
        /\ rpc = OutcomeOf(raw_answer)
        /\ [answer |-> answer, citations |-> citations]
               = Resolve(OtherSite(site), ranked_chunks, raw_answer)

\* the two copies agree on the outcome and the citations always, and on the
\* text in every outcome but Rejected
C29_SameUnlessRejected ==
    Terminal =>
        /\ rpc = OutcomeOf(raw_answer)
        /\ citations = Resolve(OtherSite(site), ranked_chunks, raw_answer).citations
        /\ rpc # "rejected" => answer = Resolve(OtherSite(site), ranked_chunks, raw_answer).answer

(***************************************************************************)
(* build_rag_context (services/chat/prompt_templates.py)                   *)
(***************************************************************************)
MaxContextChunks == 3   \* longest enumerated list of chunks given to the prompt
MaxBudget == 20         \* largest enumerated max_tokens of build_rag_context

\* config.MAX_CONTEXT_TOKENS
MAX_CONTEXT_TOKENS == 3500

\* the characters of the titles used by the model's chunks
TitleChars(t) ==
    IF t = "A" THEN <<"A">>
    ELSE IF t = "B" THEN <<"B">>
    ELSE IF t = "C" THEN <<"C">>
    ELSE <<>>

TextOfLen(n) == [i \in 1..n |-> "x"]

\* a retrieved chunk with its text
WithText(c, t) == [title |-> c.title, page |-> c.page, url |-> c.url, text |-> t]

\* return len(text) // 4
estimate_tokens(text) == Len(text) \div 4

\* f"[{idx}] Source: {title} - Page {page}\n{text}"
FormatChunk(idx, chunk) ==
    <<"[">> \o IntToStr(idx) \o <<"]", " ", "S", "o", "u", "r", "c", "e", ":", " ">>
        \o TitleChars(chunk.title)
        \o <<" ", "-", " ", "P", "a", "g", "e", " ">>
        \o IntToStr(chunk.page) \o <<"\n">> \o chunk.text

\* chunk_tokens of the chunk at rank idx
ChunkTokens(cs, idx) == estimate_tokens(FormatChunk(idx, cs[idx]))

\* max_tokens or config.MAX_CONTEXT_TOKENS: None and 0 are both falsy
MaxTokensOrDefault(param) ==
    IF param = <<>> \/ param = <<0>> THEN MAX_CONTEXT_TOKENS ELSE param[1]

\* if current_tokens + chunk_tokens > max_tokens: break
ExceedsLimit(cur, tok, mx) == cur + tok > mx

ContextSeparator == <<"\n", "\n", "-", "-", "-", "\n", "\n">>

\* sep.join(parts)
RECURSIVE Join(_, _)
Join(sep, parts) ==
    IF parts = <<>> THEN <<>>
    ELSE IF Len(parts) = 1 THEN parts[1]
    ELSE Join(sep, SubSeq(parts, 1, Len(parts) - 1)) \o sep \o parts[Len(parts)]

PromptChunkKinds ==
    { WithText(ChunkA, TextOfLen(0)), WithText(ChunkB, TextOfLen(1)),
      WithText(ChunkA, TextOfLen(5)), WithText(ChunkNoTitle, TextOfLen(12)) }

\* create_rag_prompt's call: no max_tokens, two chunks that do not both fit
\* in the configured 3500 tokens
DefaultBudgetCall ==
    /\ context_chunks = << WithText(ChunkA, TextOfLen(8000)), WithText(ChunkB, TextOfLen(8000)) >>
    /\ max_tokens_param = <<>>

PromptInit ==
    /\ \/ /\ context_chunks \in SeqsUpTo(PromptChunkKinds, MaxContextChunks)
          /\ max_tokens_param \in {<<>>} \cup {<<n>> : n \in 0..MaxBudget}
       \/ DefaultBudgetCall
    /\ context_max_tokens = 0
    /\ context_idx = 0
    /\ context_parts = <<>>
    /\ current_tokens = 0
    /\ context_text = <<>>
    /\ bpc = "enter"
    /\ ChunkerIdle
    /\ ResolverIdle
    /\ PipelineIdle
    /\ LaterIdle

\* lines 35-37
BuildEnter ==
    /\ bpc = "enter"
    /\ context_max_tokens' = MaxTokensOrDefault(max_tokens_param)
    /\ context_parts' = <<>>
    /\ current_tokens' = 0
    /\ context_idx' = 1
    /\ bpc' = "loop"
    /\ UNCHANGED <<context_chunks, max_tokens_param, context_text>>
    /\ UNCHANGED notPromptVars

\* lines 39-51: the chunk at rank idx fits
BuildInclude ==
    /\ bpc = "loop"
    /\ context_idx <= Len(context_chunks)
    /\ ~ExceedsLimit(current_tokens, ChunkTokens(context_chunks, context_idx), context_max_tokens)
    /\ context_parts' = Append(context_parts, FormatChunk(context_idx, context_chunks[context_idx]))
    /\ current_tokens' = current_tokens + ChunkTokens(context_chunks, context_idx)
    /\ context_idx' = context_idx + 1
    /\ UNCHANGED <<context_chunks, max_tokens_param, context_max_tokens, context_text, bpc>>
    /\ UNCHANGED notPromptVars

\* lines 47-48: the chunk at rank idx does not fit: break
BuildBreak ==
    /\ bpc = "loop"
    /\ context_idx <= Len(context_chunks)
    /\ ExceedsLimit(current_tokens, ChunkTokens(context_chunks, context_idx), context_max_tokens)
    /\ bpc' = "join"
    /\ UNCHANGED <<context_chunks, max_tokens_param, context_max_tokens, context_idx,
                   context_parts, current_tokens, context_text>>
    /\ UNCHANGED notPromptVars

\* line 39: the enumeration is exhausted
BuildExhausted ==
    /\ bpc = "loop"
    /\ context_idx > Len(context_chunks)
    /\ bpc' = "join"
    /\ UNCHANGED <<context_chunks, max_tokens_param, context_max_tokens, context_idx,
                   context_parts, current_tokens, context_text>>
    /\ UNCHANGED notPromptVars

\* line 53
BuildReturn ==
    /\ bpc = "join"
    /\ context_text' = Join(ContextSeparator, context_parts)
    /\ bpc' = "done"
    /\ UNCHANGED <<context_chunks, max_tokens_param, context_max_tokens, context_idx,
                   context_parts, current_tokens>>
    /\ UNCHANGED notPromptVars

PromptNext ==
    \/ BuildEnter
    \/ BuildInclude
    \/ BuildBreak
    \/ BuildExhausted
    \/ BuildReturn

PromptSpec == PromptInit /\ [][PromptNext]_vars

(***************************************************************************)
(* build_rag_context: properties                                           *)
(***************************************************************************)
\* the chunk at rank r is part of the returned context
Included(r) ==
    \E k \in DOMAIN context_parts : context_parts[k] = FormatChunk(r, context_chunks[r])

\* sum of len(formatted chunk) // 4 over ranks 1..r
RECURSIVE CumulatedTokens(_)
CumulatedTokens(r) ==
    IF r = 0 THEN 0 ELSE CumulatedTokens(r - 1) + ChunkTokens(context_chunks, r)

\* where the chunk at rank r starts in the returned context
RECURSIVE OffsetOf(_)
OffsetOf(r) ==
    IF r = 1 THEN 1
    ELSE OffsetOf(r - 1) + Len(FormatChunk(r - 1, context_chunks[r - 1])) + Len(ContextSeparator)

\* the budget the caller asked for: maxContextTokens, or the configured one
RequestedBudget == IF max_tokens_param = <<>> THEN MAX_CONTEXT_TOKENS ELSE max_tokens_param[1]

IncludedRanks == {r \in DOMAIN context_chunks : Included(r)}

\* C11 (as claimed): build_rag_context includes exactly a prefix of the
\* chunks: rank r is included iff the estimates of ranks 1..r sum to at most
\* maxContextTokens; after an excluded chunk no later chunk is included;
\* every included chunk appears whole in the context; the summed estimate
\* of the included chunks never exceeds maxContextTokens.
C11_PromptBudgetAsClaimed ==
    bpc = "done" =>
        /\ \A r \in DOMAIN context_chunks : Included(r) <=> CumulatedTokens(r) <= RequestedBudget
        /\ \A r, r2 \in DOMAIN context_chunks : (r < r2 /\ ~Included(r)) => ~Included(r2)
        /\ \A r \in IncludedRanks :
               SubSeq(context_text, OffsetOf(r),
                      OffsetOf(r) + Len(FormatChunk(r, context_chunks[r])) - 1)
                   = FormatChunk(r, context_chunks[r])
        /\ IncludedRanks # {} => CumulatedTokens(Cardinality(IncludedRanks)) <= RequestedBudget
        /\ IncludedRanks = {} => context_text = <<>>

\* the same statement for every budget of at least one token (and the default)
C11_HoldsForPositiveBudget ==
    max_tokens_param # <<0>> => C11_PromptBudgetAsClaimed

(***************************************************************************)
(* chat and compare_models (services/chat/chat_service.py), with           *)
(* OpenRouterClient and RetrievalClient as their collaborators             *)
(***************************************************************************)
MaxModels == 3      \* most configured comparison models

\* config.COMPARISON_MODELS with n entries
COMPARISON_MODELS(n) == [i \in 1..n |-> [id |-> i, name |-> <<"m">> \o IntToStr(i)]]

ApologyChat ==
    <<"I", " ", "c", "o", "u", "l", "d", "n", "'", "t", " ", "f", "i", "n",
      "d", " ", "a", "n", "y", " ", "r", "e", "l", "e", "v", "a", "n", "t",
      " ", "i", "n", "f", "o", "r", "m", "a", "t", "i", "o", "n", " ", "i",
      "n", " ", "t", "h", "e", " ", "M", "A", "R", "P", " ", "d", "o", "c",
      "u", "m", "e", "n", "t", "s", " ", "t", "o", " ", "a", "n", "s", "w",
      "e", "r", " ", "y", "o", "u", "r", " ", "q", "u", "e", "s", "t", "i",
      "o", "n", ".", " ", "P", "l", "e", "a", "s", "e", " ", "t", "r", "y",
      " ", "r", "e", "p", "h", "r", "a", "s", "i", "n", "g", " ", "y", "o",
      "u", "r", " ", "q", "u", "e", "r", "y", ".">>

ApologyCompare ==
    <<"I", " ", "c", "o", "u", "l", "d", "n", "'", "t", " ", "f", "i", "n",
      "d", " ", "a", "n", "y", " ", "r", "e", "l", "e", "v", "a", "n", "t",
      " ", "i", "n", "f", "o", "r", "m", "a", "t", "i", "o", "n", " ", "i",
      "n", " ", "t", "h", "e", " ", "M", "A", "R", "P", " ", "d", "o", "c",
      "u", "m", "e", "n", "t", "s", " ", "t", "o", " ", "a", "n", "s", "w",
      "e", "r", " ", "y", "o", "u", "r", " ", "q", "u", "e", "s", "t", "i",
      "o", "n", ".">>

\* f"Error generating answer with {model_config['name']}. Please try again."
ErrorAnswer(name) ==
        <<"E", "r", "r", "o", "r", " ", "g", "e", "n", "e", "r", "a", "t", "i",
          "n", "g", " ", "a", "n", "s", "w", "e", "r", " ", "w", "i", "t", "h",
          " ">>
        \o name \o
        <<".", " ", "P", "l", "e", "a", "s", "e", " ", "t", "r", "y", " ", "a",
          "g", "a", "i", "n", ".">>

QuoteChars == {"\"", "'"}

\* str.strip(chars): drop leading and trailing characters of the set
StripChars(s, cs) ==
    LET solid == {i \in DOMAIN s : s[i] \notin cs}
    IN IF solid = {} THEN <<>> ELSE SubSeq(s, SetMin(solid), SetMax(solid))

\* ---- OpenRouterClient -------------------------------------------------
\* what self.client.chat.completions.create does: it raises (transport
\* error or timeout), answers without usable content, or answers with content
Completion(kind, content) == [kind |-> kind, content |-> content]

\* lines 58-91: the body of the try block of reformulate_query
ReformulateBody(user_query, c) ==
    IF c.kind = "content"
    THEN [raised |-> FALSE, value |-> StripChars(Strip(c.content), QuoteChars)]
    ELSE [raised |-> TRUE, value |-> <<>>]

\* (mutation of reformulate_query: the except clause left out)
ReformulatePropagating(user_query, c) == ReformulateBody(user_query, c)

\* lines 46-96: except Exception: return user_query
reformulate_query(user_query, c) ==
    IF ReformulateBody(user_query, c).raised
    THEN [raised |-> FALSE, value |-> user_query]
    ELSE ReformulateBody(user_query, c)

\* lines 98-120: generate_answer strips the content, and re-raises failures
generate_answer(c) ==
    IF c.kind = "content"
    THEN [raised |-> FALSE, value |-> Strip(c.content)]
    ELSE [raised |-> TRUE, value |-> <<>>]

\* ---- prompt_templates.create_rag_prompt -------------------------------
\* build_rag_context as a function: the formatted chunks it keeps
RECURSIVE ContextPartsFrom(_, _, _, _, _)
ContextPartsFrom(cs, idx, cur, mx, parts) ==
    IF idx > Len(cs) THEN parts
    ELSE IF ExceedsLimit(cur, ChunkTokens(cs, idx), mx) THEN parts
    ELSE ContextPartsFrom(cs, idx + 1, cur + ChunkTokens(cs, idx), mx,
                          Append(parts, FormatChunk(idx, cs[idx])))

\* (mutation of NoChunks: the emptiness test never taken)
NoChunksIgnored(cs) == FALSE

\* if not chunks:
NoChunks(cs) == cs = <<>>

\* (mutation of GenerateAttempts: a failed call tried a second time)
GenerateAttemptsWithRetry(c) == IF c.kind = "content" THEN 1 ELSE 2

\* client.generate_answer(prompt) is called once, whatever comes of it
GenerateAttempts(c) == 1

\* (mutation of create_rag_prompt: the chunks taken in another order)
CreateRagPromptReordered(q, cs) ==
    ContextPartsFrom([i \in DOMAIN cs |-> cs[Len(cs) + 1 - i]], 1, 0, MaxTokensOrDefault(<<>>), <<>>)

\* create_rag_prompt calls build_rag_context(context_chunks) without max_tokens
create_rag_prompt(q, cs) == ContextPartsFrom(cs, 1, 0, MaxTokensOrDefault(<<>>), <<>>)

\* ---- response models ---------------------------------------------------
\* the fields of ComparisonResponse; none has a default, so all are required
ComparisonResponseFields ==
    {"query", "reformulated_query", "results", "latency_ms", "retrieval_count"}

\* pydantic raises a validation error when a required field is not given
ValidationError(required, given) == ~(required \subseteq given)

OkChat(a, cits) == [status |-> "ok", answer |-> a, citations |-> cits, results |-> <<>>]
OkCompare(rs) == [status |-> "ok", answer |-> <<>>, citations |-> <<>>, results |-> rs]
\* except Exception: raise HTTPException(status_code=500, ...)
Http500 == [status |-> "error", answer |-> <<>>, citations |-> <<>>, results |-> <<>>]

ModelComparisonResult(model, a, cits) ==
    [model_id |-> model.id, model_name |-> model.name, answer |-> a, citations |-> cits]

\* history entry: a collaborator call, what it was given and what came of it
Call(op, m, arg, outcome) == [op |-> op, model |-> m, arg |-> arg, outcome |-> outcome]

\* ---- ordering of the comparison results -------------------------------
\* model_order = {model["id"]: i for i, model in enumerate(config.COMPARISON_MODELS)}
\* key = model_order.get(r.model_id, 999)
ModelOrderKey(ms, id) ==
    IF \E i \in DOMAIN ms : ms[i].id = id
    THEN SetMax({i \in DOMAIN ms : ms[i].id = id}) - 1
    ELSE 999

\* insert r behind every element whose key is not larger (list.sort is stable)
InsertByKey(sorted, r, ms) ==
    LET before == {i \in DOMAIN sorted :
                      ModelOrderKey(ms, sorted[i].model_id) <= ModelOrderKey(ms, r.model_id)}
        k == IF before = {} THEN 0 ELSE SetMax(before)
    IN SubSeq(sorted, 1, k) \o <<r>> \o SubSeq(sorted, k + 1, Len(sorted))

RECURSIVE SortFrom(_, _, _)
SortFrom(sorted, rest, ms) ==
    IF rest = <<>> THEN sorted
    ELSE SortFrom(InsertByKey(sorted, Head(rest), ms), Tail(rest), ms)

\* (mutation of SortResults: the results left in completion order)
ResultsAsCompleted(rs, ms) == rs

\* results.sort(key=lambda r: model_order.get(r.model_id, 999))
SortResults(rs, ms) == SortFrom(<<>>, rs, ms)

\* ---- inputs ------------------------------------------------------------
Queries == { <<" ", "q", "'">> }

ReformulationContents ==
    { <<" ", "\"", "r", "\"", "\n">>, <<"'", " ", "r", "'">> }

ReformulationCompletions ==
    {Completion(k, <<>>) : k \in {"timeout", "no_content"}}
        \cup {Completion("content", c) : c \in ReformulationContents}

\* what retrieval_client.search does: it raises, or returns the ranked chunks
RetrievedLists ==
    { <<>>,
      <<WithText(ChunkA, TextOfLen(1))>>,
      <<WithText(ChunkA, TextOfLen(1)), WithText(ChunkB, TextOfLen(2)),
        WithText(ChunkA, TextOfLen(3))>> }

\* three chunks of which the configured 3500 tokens hold the first two only;
\* enumerated for chat, whose state holds the list once
OverBudgetList ==
    << WithText(ChunkA, TextOfLen(1)), WithText(ChunkA, TextOfLen(8000)),
       WithText(ChunkB, TextOfLen(8000)) >>

SearchOutcomes(e) == IF e = "chat" THEN RetrievedLists \cup {OverBudgetList} ELSE RetrievedLists

GenerationContents ==
    { <<"[", "1", "]">>,
      <<"[", "1", "]", " ", "[", "3", "]", "\n">>,
      <<"x">>,
      <<"C", "a", "n", "n", "o", "t", " ", "a", "n", "s", "w", "e", "r">> }

GenerationCompletions ==
    {Completion(k, <<>>) : k \in {"error", "timeout"}}
        \cup {Completion("content", c) : c \in GenerationContents}

\* what a comparison worker's generate_answer call does
WorkerContents == { <<"[", "1", "]", " ", "[", "3", "]", "\n">> }
WorkerCompletions ==
    {Completion("timeout", <<>>)} \cup {Completion("content", c) : c \in WorkerContents}

\* event_broker is None, publishes, or raises while publishing
PublishOutcomes == {"no_broker", "published", "publish_failed"}

Published(evs, name, o) == IF o = "published" THEN Append(evs, name) ELSE evs

NoCompletion == Completion("none", <<>>)
\* a future as submitted; generate_calls, completion, given_prompt, given_chunks
\* and failure are history of what its worker did
NoResult == [model_id |-> 0, model_name |-> <<>>, answer |-> <<>>, citations |-> <<>>]

\* a future as submitted; raised and result are what future.result() gives;
\* generate_calls, completion, given_prompt, given_chunks, failure and
\* collected_as are history of what its worker did and of when it was collected
NewFuture == [state |-> "queued", raised |-> FALSE, result |-> NoResult,
              generate_calls |-> 0, completion |-> NoCompletion,
              given_prompt |-> <<>>, given_chunks |-> <<>>, failure |-> "none",
              collected_as |-> 0]

PipelineInit ==
    /\ endpoint \in {"chat", "compare"}
    /\ ppc = "publish_start"
    /\ reformulation \in BOOLEAN
    /\ models \in {COMPARISON_MODELS(n) : n \in 1..MaxModels}
    /\ query \in Queries
    /\ search_query = <<>>
    /\ retrieved = <<>>
    /\ prompt = <<>>
    /\ futures = <<>>
    /\ results = <<>>
    /\ response = NoResponse
    /\ events = <<>>
    /\ calls = <<>>
    /\ ChunkerIdle
    /\ ResolverIdle
    /\ PromptIdle
    /\ LaterIdle

notPipeVars == <<chunkVars, resVars, promptVars, laterVars>>

\* lines 162-178 (351-367): publish QuerySubmitted (ModelComparisonTriggered)
PublishStart ==
    /\ ppc = "publish_start"
    /\ \E o \in PublishOutcomes :
           events' = Published(events,
                               IF endpoint = "chat" THEN "QuerySubmitted"
                                                    ELSE "ModelComparisonTriggered", o)
    /\ ppc' = "reformulate"
    /\ UNCHANGED <<endpoint, reformulation, models, query, search_query, retrieved, prompt,
                   futures, results, response, calls>>
    /\ UNCHANGED notPipeVars

\* lines 181-188 (370-377)
Reformulate ==
    /\ ppc = "reformulate"
    /\ IF reformulation
       THEN \E c \in ReformulationCompletions :
                /\ calls' = Append(calls, Call("reformulate", 0, query, c))
                /\ IF reformulate_query(query, c).raised
                   THEN /\ response' = Http500
                        /\ ppc' = "failed"
                        /\ search_query' = query
                   ELSE /\ search_query' = reformulate_query(query, c).value
                        /\ ppc' = "retrieve"
                        /\ UNCHANGED response
       ELSE /\ search_query' = query
            /\ ppc' = "retrieve"
            /\ UNCHANGED <<calls, response>>
    /\ UNCHANGED <<endpoint, reformulation, models, query, retrieved, prompt, futures,
                   results, events>>
    /\ UNCHANGED notPipeVars

\* line 192 (381): the search raises; the handler's except clause answers 500
RetrieveFails ==
    /\ ppc = "retrieve"
    /\ calls' = Append(calls, Call("search", 0, search_query, Completion("error", <<>>)))
    /\ response' = Http500
    /\ ppc' = "failed"
    /\ UNCHANGED <<endpoint, reformulation, models, query, search_query, retrieved, prompt,
                   futures, results, events>>
    /\ UNCHANGED notPipeVars

\* line 192 (381): the search returns its list
Retrieve ==
    /\ ppc = "retrieve"
    /\ retrieved' \in SearchOutcomes(endpoint)
    /\ calls' = Append(calls, Call("search", 0, search_query, Completion("content", <<>>)))
    /\ ppc' = "check_empty"
    /\ UNCHANGED <<endpoint, reformulation, models, query, search_query, prompt, futures,
                   results, response, events>>
    /\ UNCHANGED notPipeVars

\* lines 194-200: chat, nothing retrieved
EmptyRetrievalChat ==
    /\ ppc = "check_empty"
    /\ endpoint = "chat"
    /\ NoChunks(retrieved)
    /\ response' = OkChat(ApologyChat, <<>>)
    /\ ppc' = "responded"
    /\ UNCHANGED <<endpoint, reformulation, models, query, search_query, retrieved, prompt,
                   futures, results, events, calls>>
    /\ UNCHANGED notPipeVars

\* lines 383-398: compare_models, nothing retrieved: ComparisonResponse is
\* built from query, reformulated_query and results only
EmptyRetrievalCompare ==
    /\ ppc = "check_empty"
    /\ endpoint = "compare"
    /\ NoChunks(retrieved)
    /\ IF ValidationError(ComparisonResponseFields, {"query", "reformulated_query", "results"})
       THEN /\ response' = Http500
            /\ ppc' = "failed"
       ELSE /\ response' = OkCompare([i \in DOMAIN models |->
                                         ModelComparisonResult(models[i], ApologyCompare, <<>>)])
            /\ ppc' = "responded"
    /\ UNCHANGED <<endpoint, reformulation, models, query, search_query, retrieved, prompt,
                   futures, results, events, calls>>
    /\ UNCHANGED notPipeVars

\* line 206 (404)
BuildPrompt ==
    /\ ppc = "check_empty"
    /\ ~NoChunks(retrieved)
    /\ prompt' = create_rag_prompt(query, retrieved)
    /\ calls' = Append(calls, Call("prompt", 0, query, NoCompletion))
    /\ ppc' = IF endpoint = "chat" THEN "generate" ELSE "submit"
    /\ UNCHANGED <<endpoint, reformulation, models, query, search_query, retrieved, futures,
                   results, response, events>>
    /\ UNCHANGED notPipeVars

\* lines 210-215: chat calls generate_answer; a failure reaches the except
\* clause of line 333; an answer enters the citation extraction of line 221
Generate ==
    /\ ppc = "generate"
    /\ endpoint = "chat"
    /\ \E c \in GenerationCompletions :
           /\ calls' = Append(calls, Call("generate", 0, prompt, c))
           /\ IF generate_answer(c).raised
              THEN /\ response' = Http500
                   /\ ppc' = "failed"
                   /\ UNCHANGED resVars
              ELSE /\ ppc' = "resolve"
                   /\ site' = "chat"
                   /\ ranked_chunks' = retrieved
                   /\ raw_answer' = generate_answer(c).value
                   /\ answer' = generate_answer(c).value
                   /\ origin' = OriginOf(generate_answer(c).value)
                   /\ citations' = <<>>
                   /\ cited_numbers' = {}
                   /\ citation_mapping' = <<>>
                   /\ mapping_order' = <<>>
                   /\ final_cited_numbers' = {}
                   /\ rpc' = "phrase_check"
                   /\ resolve_run' = 1
                   /\ first_result' = <<>>
                   /\ UNCHANGED response
    /\ UNCHANGED <<endpoint, reformulation, models, query, search_query, retrieved, prompt,
                   futures, results, events>>
    /\ UNCHANGED <<chunkVars, promptVars, laterVars>>

\* lines 306-331: publish ResponseGenerated and return the ChatResponse
PublishAndReturn ==
    /\ ppc = "resolve"
    /\ Terminal
    /\ \E o \in PublishOutcomes : events' = Published(events, "ResponseGenerated", o)
    /\ response' = OkChat(answer, citations)
    /\ ppc' = "responded"
    /\ UNCHANGED <<endpoint, reformulation, models, query, search_query, retrieved, prompt,
                   futures, results, calls>>
    /\ UNCHANGED notPipeVars

\* line 511: executor.submit(generate_with_model, model), model after model
Submit ==
    /\ ppc = "submit"
    /\ Len(futures) < Len(models)
    /\ futures' = Append(futures, NewFuture)
    /\ ppc' = IF Len(futures') = Len(models) THEN "collect" ELSE "submit"
    /\ UNCHANGED <<endpoint, reformulation, models, query, search_query, retrieved, prompt,
                   results, response, events, calls>>
    /\ UNCHANGED notPipeVars

\* (mutation of ResolvedByWorker: the worker resolves against a chunk list
\* that lost its last chunk)
ResolvedOnShortenedChunks ==
    [cs \in RetrievedLists |->
        [c \in WorkerContents |->
            Resolve("compare", SubSeq(cs, 1, Len(cs) - 1),
                    generate_answer(Completion("content", c)).value)]]

\* lines 414-492 run by a worker on the answer generate_answer returned,
\* tabulated over the model's inputs (the function is evaluated once per input)
ResolvedByWorker ==
    [cs \in RetrievedLists |->
        [c \in WorkerContents |->
            Resolve("compare", cs, generate_answer(Completion("content", c)).value)]]

\* lines 411-497: the body of the try block of generate_with_model
GenerateWithModelBody(model, c, resolver_raises, cs) ==
    IF generate_answer(c).raised \/ resolver_raises
    THEN [raised |-> TRUE, value |-> NoResult]
    ELSE [raised |-> FALSE,
          value |-> ModelComparisonResult(model,
                                          ResolvedByWorker[cs][c.content].answer,
                                          ResolvedByWorker[cs][c.content].citations)]

\* (mutation of generate_with_model: the except clause left out)
GenerateWithModelUncaught(model, c, resolver_raises, cs) ==
    GenerateWithModelBody(model, c, resolver_raises, cs)

\* lines 409-506: except Exception: return the error placeholder
generate_with_model(model, c, resolver_raises, cs) ==
    IF GenerateWithModelBody(model, c, resolver_raises, cs).raised
    THEN [raised |-> FALSE,
          value |-> ModelComparisonResult(model, ErrorAnswer(model.name), <<>>)]
    ELSE GenerateWithModelBody(model, c, resolver_raises, cs)

WorkerFailure(c, resolver_raises) ==
    IF generate_answer(c).raised THEN "generation"
    ELSE IF resolver_raises THEN "resolution" ELSE "none"

\* lines 409-506: generate_with_model runs in a pool thread
WorkerRun(m) ==
    /\ futures[m].state = "queued"
    /\ \E c \in WorkerCompletions, resolver_raises \in BOOLEAN :
           futures' = [futures EXCEPT
                          ![m] = [state |-> "done",
                                  raised |-> generate_with_model(models[m], c, resolver_raises,
                                                                 retrieved).raised,
                                  result |-> generate_with_model(models[m], c, resolver_raises,
                                                                 retrieved).value,
                                  generate_calls |-> futures[m].generate_calls + GenerateAttempts(c),
                                  completion |-> c,
                                  given_prompt |-> prompt,
                                  given_chunks |-> retrieved,
                                  failure |-> WorkerFailure(c, resolver_raises),
                                  collected_as |-> 0]]
    /\ UNCHANGED <<endpoint, ppc, reformulation, models, query, search_query, retrieved,
                   prompt, results, response, events, calls>>
    /\ UNCHANGED notPipeVars

\* lines 513-515: as_completed hands over a finished future; future.result()
\* raises what the worker raised, which reaches the except clause of line 532
Collect(m) ==
    /\ ppc = "collect"
    /\ futures[m].state = "done"
    /\ futures' = [futures EXCEPT ![m].state = "collected",
                                  ![m].collected_as = Len(results) + 1]
    /\ IF futures[m].raised
       THEN /\ response' = Http500
            /\ ppc' = "failed"
            /\ UNCHANGED results
       ELSE /\ results' = Append(results, futures[m].result)
            /\ UNCHANGED <<response, ppc>>
    /\ UNCHANGED <<endpoint, reformulation, models, query, search_query, retrieved,
                   prompt, events, calls>>
    /\ UNCHANGED notPipeVars

\* lines 517-530: sort the results and return the ComparisonResponse
SortAndReturn ==
    /\ ppc = "collect"
    /\ \A m \in DOMAIN futures : futures[m].state = "collected"
    /\ results' = SortResults(results, models)
    /\ IF ValidationError(ComparisonResponseFields,
                          {"query", "reformulated_query", "results", "latency_ms",
                           "retrieval_count"})
       THEN /\ response' = Http500
            /\ ppc' = "failed"
       ELSE /\ response' = OkCompare(SortResults(results, models))
            /\ ppc' = "responded"
    /\ UNCHANGED <<endpoint, reformulation, models, query, search_query, retrieved, prompt,
                   futures, events, calls>>
    /\ UNCHANGED notPipeVars

PipelineNext ==
    \/ PublishStart
    \/ Reformulate
    \/ RetrieveFails
    \/ Retrieve
    \/ EmptyRetrievalChat
    \/ EmptyRetrievalCompare
    \/ BuildPrompt
    \/ Generate
    \/ InsufficientInfoCheck
    \/ HallucinationCheck
    \/ DeduplicateAndMap
    \/ RewriteNumbers
    \/ FilterSurvivors
    \/ ConsecutiveRenumber
    \/ PublishAndReturn
    \/ Submit
    \/ \E m \in DOMAIN futures : WorkerRun(m)
    \/ \E m \in DOMAIN futures : Collect(m)
    \/ SortAndReturn

PipelineSpec == PipelineInit /\ [][PipelineNext]_vars

(***************************************************************************)
(* chat and compare_models: properties                                     *)
(***************************************************************************)
CallsOf(op) == {i \in DOMAIN calls : calls[i].op = op}

\* the search returned a list (it did not raise)
SearchReturned == \E i \in CallsOf("search") : calls[i].outcome.kind = "content"
SearchRaised == \E i \in CallsOf("search") : calls[i].outcome.kind # "content"

\* chat's generate_answer call raised
GeneratorRaised == \E i \in CallsOf("generate") : calls[i].outcome.kind # "content"

\* the Generator was invoked, by chat or by a comparison worker
GeneratorInvoked ==
    \/ CallsOf("generate") # {}
    \/ \E m \in DOMAIN futures : futures[m].generate_calls > 0

Finished == ppc \in {"responded", "failed"}

\* the number a context part is labelled with: the digits of its leading [n]
LabelOf(part) == MarkerNumber(part, CHOOSE m \in Markers(part) : m[1] = 1)

\* C12: the label [n] in the prompt's context block heads the title, page
\* and text of rankedChunks[n-1], in retrieval order, and the resolver maps a
\* cited marker [n] to a citation carrying the title and page of that same
\* rankedChunks[n-1]: both stages enumerate the same list in the same order.
C12_NumberingAgreement ==
    /\ \A n \in DOMAIN prompt :
           /\ n \in DOMAIN retrieved
           /\ LabelOf(prompt[n]) = n
           /\ prompt[n] = FormatChunk(n, retrieved[n])
    /\ rpc \in {"rewrite", "filter"} =>
           /\ ranked_chunks = retrieved
           /\ \A n \in DOMAIN citation_mapping :
                  /\ n \in DOMAIN retrieved
                  /\ citations[citation_mapping[n]].title = retrieved[n].title
                  /\ citations[citation_mapping[n]].page = retrieved[n].page
                  /\ n \in DOMAIN prompt => prompt[n] = FormatChunk(n, ranked_chunks[n])

C12_Witness ==
    /\ rpc = "rewrite"
    /\ Len(prompt) = 3
    /\ DOMAIN citation_mapping = {1, 3}
    /\ citation_mapping[3] = 1

\* C13: when the search returns an empty list, chat returns the fixed
\* apology text with citations = [] as a successful response, and neither
\* the prompt builder nor the generator is invoked for that request.
C13_EmptyRetrievalChat ==
    (endpoint = "chat" /\ SearchReturned /\ retrieved = <<>>) =>
        /\ ppc \in {"check_empty", "responded"}
        /\ CallsOf("prompt") = {}
        /\ ~GeneratorInvoked
        /\ ppc = "responded" =>
               /\ response.status = "ok"
               /\ response.answer = ApologyChat
               /\ response.citations = <<>>

C13_Witness ==
    /\ endpoint = "chat"
    /\ SearchReturned
    /\ retrieved = <<>>
    /\ ppc = "responded"
    /\ response.answer = ApologyChat

\* a compare_models request: reformulation at most once, retrieval at most
\* once and, once anything later happens, exactly once; both before any
\* generator call; each worker given the request's chunks and prompt
SharedRetrieval ==
    /\ Cardinality(CallsOf("reformulate")) <= 1
    /\ Cardinality(CallsOf("search")) <= 1
    /\ \A i \in CallsOf("reformulate") : \A j \in CallsOf("search") : i < j
    /\ (GeneratorInvoked \/ Finished) => Cardinality(CallsOf("search")) = 1
    /\ GeneratorInvoked => Cardinality(CallsOf("reformulate")) = (IF reformulation THEN 1 ELSE 0)
    /\ \A m \in DOMAIN futures :
           futures[m].generate_calls > 0 =>
               /\ futures[m].given_chunks = retrieved
               /\ futures[m].given_prompt = prompt
               /\ futures[m].given_prompt = create_rag_prompt(query, retrieved)

GenerateCallsOf(m) == IF m \in DOMAIN futures THEN futures[m].generate_calls ELSE 0

\* C14 (as claimed): in one compare_models request reformulation is invoked
\* at most once and retrieval exactly once, both before any generator call;
\* every worker is given the same chunks and prompt; the generator is
\* invoked exactly once per configured model.
C14_SharedRetrievalAsClaimed ==
    endpoint = "compare" =>
        /\ SharedRetrieval
        /\ \A m \in DOMAIN models : GenerateCallsOf(m) <= 1
        /\ Finished => \A m \in DOMAIN models : GenerateCallsOf(m) = 1

\* C14 (amended): as claimed, with the generator invoked exactly once per
\* configured model when the search returned at least one chunk, and not at
\* all when it raised or returned nothing.
C14_SharedRetrieval ==
    endpoint = "compare" =>
        /\ SharedRetrieval
        /\ \A m \in DOMAIN models : GenerateCallsOf(m) <= 1
        /\ (Finished /\ SearchReturned /\ retrieved # <<>>) =>
               \A m \in DOMAIN models : GenerateCallsOf(m) = 1
        /\ (SearchRaised \/ retrieved = <<>>) => ~GeneratorInvoked

C14_Witness ==
    /\ endpoint = "compare"
    /\ ppc = "responded"
    /\ Len(models) = 3
    /\ reformulation
    /\ \A m \in DOMAIN models : GenerateCallsOf(m) = 1
    /\ \E m \in DOMAIN models : futures[m].failure = "generation"

\* C15: when retrieval is non-empty, compare_models returns exactly one
\* result per configured model, in the configured order, whatever the order
\* in which the workers completed, and only after every worker completed.
C15_CanonicalOrder ==
    (endpoint = "compare" /\ ppc = "responded" /\ retrieved # <<>>) =>
        /\ Len(response.results) = Len(models)
        /\ \A i \in DOMAIN models : response.results[i].model_id = models[i].id
        /\ Len(futures) = Len(models)
        /\ \A m \in DOMAIN futures : futures[m].state = "collected"

C15_Witness ==
    /\ endpoint = "compare"
    /\ ppc = "responded"
    /\ Len(models) = 3
    /\ futures[3].collected_as = 1
    /\ futures[1].collected_as = 3
    /\ \A i \in DOMAIN models : response.results[i].model_id = models[i].id

\* what model m's worker returns when nothing fails in it: the resolution of
\* its own generator output against the request's chunks
UnaffectedResolution ==
    [cs \in RetrievedLists |->
        [content \in WorkerContents |-> Resolve("compare", cs, Strip(content))]]

UnaffectedResult(m) ==
    ModelComparisonResult(
        models[m],
        UnaffectedResolution[retrieved][futures[m].completion.content].answer,
        UnaffectedResolution[retrieved][futures[m].completion.content].citations)

\* C16: when generation or resolution fails or times out for any subset of
\* the models, each failed model's result is the error-text placeholder with
\* citations = [], every other model's result is what it would have been had
\* no worker failed, every worker still ran, and the request succeeds.
C16_WorkerIsolation ==
    endpoint = "compare" =>
        /\ ppc = "failed" => futures = <<>>
        /\ (ppc = "responded" /\ retrieved # <<>>) =>
               /\ response.status = "ok"
               /\ \A m \in DOMAIN models :
                      /\ futures[m].generate_calls = 1
                      /\ futures[m].failure # "none" =>
                             /\ response.results[m].answer = ErrorAnswer(models[m].name)
                             /\ response.results[m].citations = <<>>
                             /\ response.results[m].model_id = models[m].id
                      /\ futures[m].failure = "none" =>
                             response.results[m] = UnaffectedResult(m)

C16_Witness ==
    /\ endpoint = "compare"
    /\ ppc = "responded"
    /\ Len(models) = 3
    /\ futures[1].failure = "generation"
    /\ futures[2].failure = "none"
    /\ futures[3].failure = "resolution"
    /\ futures[1].collected_as = 1
    /\ response.results[2].citations # <<>>

\* C17 (as claimed): if the search raises, chat and compare_models abort
\* with a failure response and the generator is never invoked; if the
\* generator raises in chat, chat aborts with a failure response and
\* publishes no ResponseGenerated event; nothing else aborts a request.
C17_FatalErrorsAsClaimed ==
    /\ SearchRaised =>
           /\ ppc = "failed"
           /\ response.status = "error"
           /\ ~GeneratorInvoked
    /\ (endpoint = "chat" /\ GeneratorRaised) =>
           /\ ppc = "failed"
           /\ response.status = "error"
           /\ \A i \in DOMAIN events : events[i] # "ResponseGenerated"
    /\ ppc = "failed" => (SearchRaised \/ (endpoint = "chat" /\ GeneratorRaised))

\* C18 (as claimed): when the search returns an empty list, compare_models
\* completes successfully with, for every configured model in configured
\* order, the fixed apology answer with citations = []; no generator call.
C18_EmptyRetrievalCompareAsClaimed ==
    (endpoint = "compare" /\ SearchReturned /\ retrieved = <<>>) =>
        /\ ~GeneratorInvoked
        /\ ppc \in {"check_empty", "responded"}
        /\ ppc = "responded" =>
               /\ response.status = "ok"
               /\ Len(response.results) = Len(models)
               /\ \A i \in DOMAIN models :
                      /\ response.results[i].model_id = models[i].id
                      /\ response.results[i].answer = ApologyCompare
                      /\ response.results[i].citations = <<>>

\* s is text with characters of the set cs removed from its two ends only,
\* among them all the whitespace text begins and ends with, and s neither
\* begins nor ends with a quote character
TrimmedOf(s, text) ==
    \E a \in 1..(Len(text) + 1) : \E b \in 0..Len(text) :
        /\ s = SubSeq(text, a, b)
        /\ \A i \in DOMAIN text : (i < a \/ i > b) => text[i] \in Whitespace \cup QuoteChars
        /\ \A i \in DOMAIN text : (\A j \in 1..i : text[j] \in Whitespace) => i < a
        /\ \A i \in DOMAIN text : (\A j \in i..Len(text) : text[j] \in Whitespace) => i > b
        /\ s # <<>> => (s[1] \notin QuoteChars /\ s[Len(s)] \notin QuoteChars)

\* C19: reformulate_query never raises to its caller; when the generation
\* call fails (error, timeout, missing content) the original query is used
\* unchanged; when it succeeds the model output is used with surrounding
\* whitespace and quote characters removed; in both cases the next step is
\* the search, run on that query.
C19_ReformulationFallback ==
    \A i \in CallsOf("reformulate") :
        /\ calls[i].arg = query
        /\ calls[i].outcome.kind # "content" => search_query = query
        /\ calls[i].outcome.kind = "content" => TrimmedOf(search_query, calls[i].outcome.content)
        /\ Len(calls) = i => ppc = "retrieve"
        /\ Len(calls) > i =>
               /\ calls[i + 1].op = "search"
               /\ calls[i + 1].arg = search_query

C19_Witness ==
    /\ \E i \in CallsOf("reformulate") : calls[i].outcome.kind = "no_content"
    /\ \E j \in CallsOf("search") : calls[j].arg = query /\ calls[j].outcome.kind = "content"
    /\ query # Strip(query)
    /\ ppc = "responded"

\* what every state shows of the shared chunks and prompt
ChunksShared ==
    /\ prompt # <<>> => prompt = create_rag_prompt(query, retrieved)
    /\ ppc = "resolve" => ranked_chunks = retrieved
    /\ \A m \in DOMAIN futures :
           futures[m].state # "queued" =>
               /\ futures[m].given_chunks = retrieved
               /\ futures[m].given_prompt = prompt
               /\ futures[m].failure = "none" => futures[m].result = UnaffectedResult(m)

\* what every step leaves of them: the list is written by the Retriever's
\* return only, the prompt by create_rag_prompt only
ChunksKept ==
    /\ ppc # "retrieve" => retrieved' = retrieved
    /\ ppc # "check_empty" => prompt' = prompt
    /\ ranked_chunks' # ranked_chunks => ranked_chunks' = retrieved

ShownChunks == {retrieved[n] : n \in DOMAIN prompt}

\* C28 (as claimed): every citation of a Grounded answer belongs to a chunk
\* that is in the prompt's context block: a chunk that build_rag_context
\* dropped for the token budget is never returned as a citation.
C28_CitationsOnlyToShownAsClaimed ==
    (endpoint = "chat" /\ ppc = "responded" /\ rpc = "grounded") =>
        \A k \in DOMAIN response.citations :
            \E c \in ShownChunks : response.citations[k] = MakeCitation(c)

\* it holds whenever the budget dropped nothing
C28_HoldsWithinBudget ==
    Len(prompt) = Len(retrieved) => C28_CitationsOnlyToShownAsClaimed

(***************************************************************************)
(* search (services/retrieval/retrieval_service.py)                        *)
(***************************************************************************)
MaxHits == 3        \* most hits the vector search returns
MaxTopK == 3        \* largest enumerated top_k

\* line 120: texts longer than this are trimmed
TrimLimit == 1700

\* stands for the one character U+2026 (horizontal ellipsis)
Ellipsis == "~"

\* lines 120-121: text[:1700] + the ellipsis character, for a long text
Trim(text) ==
    IF Len(text) > TrimLimit THEN Append(SubSeq(text, 1, TrimLimit), Ellipsis) ELSE text

\* a text of 1700 characters followed by one more
LongText(c) == [i \in 1..(TrimLimit + 1) |-> IF i <= TrimLimit THEN "A" ELSE c]

\* payload texts: short ones, one that differs from another by blanks only,
\* and two long ones that differ after character 1700
HitTexts ==
    { <<"a">>, <<" ", "a", "\n">>, <<"b">>, LongText("B"), LongText("C") }

\* str.strip() of the payload texts, evaluated once per text
StrippedTexts == [t \in HitTexts |-> Strip(t)]

\* line 112: payload.get("text", "").strip()
HitText(hit) == StrippedTexts[hit.text]

\* the key a hit is remembered by in seen_texts (lines 115-117)
SeenKey(hit) == HitText(hit)

\* lines 123-133: the SearchResult built for a hit (hit: history, the
\* position of the hit it was built from)
SearchResult(hit, n) == [text |-> Trim(HitText(hit)), chunk_index |-> hit.chunk_index, hit |-> n]

\* the hits of a query: up to MaxHits points, chunk_index telling them apart
HitLists ==
    UNION {{[i \in 1..n |-> [text |-> t[i], chunk_index |-> i]] : t \in [1..n -> HitTexts]}
           : n \in 0..MaxHits}

\* line 38: top_k is validated to lie in 1..20; line 104: the hits
SearchInit ==
    /\ top_k \in 1..MaxTopK
    /\ hits \in HitLists
    /\ hit_no = 1
    /\ seen_texts = {}
    /\ search_results = <<>>
    /\ spc = "loop"
    /\ CoreIdle
    /\ IndexIdle
    /\ SessionIdle

\* lines 110-116: a hit whose text was seen is skipped
SkipDuplicate ==
    /\ spc = "loop"
    /\ hit_no \in DOMAIN hits
    /\ SeenKey(hits[hit_no]) \in seen_texts
    /\ hit_no' = hit_no + 1
    /\ UNCHANGED <<top_k, hits, seen_texts, search_results, spc>>
    /\ UNCHANGED notSearchVars

\* lines 110-136: a hit with a new text is kept; the loop ends at top_k results
KeepHit ==
    /\ spc = "loop"
    /\ hit_no \in DOMAIN hits
    /\ SeenKey(hits[hit_no]) \notin seen_texts
    /\ seen_texts' = seen_texts \cup {SeenKey(hits[hit_no])}
    /\ search_results' = Append(search_results, SearchResult(hits[hit_no], hit_no))
    /\ hit_no' = hit_no + 1
    /\ spc' = IF Len(search_results') >= top_k THEN "return" ELSE "loop"
    /\ UNCHANGED <<top_k, hits>>
    /\ UNCHANGED notSearchVars

\* line 110: no hit is left
HitsExhausted ==
    /\ spc = "loop"
    /\ hit_no \notin DOMAIN hits
    /\ spc' = "return"
    /\ UNCHANGED <<top_k, hits, hit_no, seen_texts, search_results>>
    /\ UNCHANGED notSearchVars

\* lines 138-168: publish RetrievalCompleted (best effort) and return
SearchReturn ==
    /\ spc = "return"
    /\ spc' = "returned"
    /\ UNCHANGED <<top_k, hits, hit_no, seen_texts, search_results>>
    /\ UNCHANGED notSearchVars

SearchNext == SkipDuplicate \/ KeepHit \/ HitsExhausted \/ SearchReturn

SearchSpec == SearchInit /\ [][SearchNext]_vars

(***************************************************************************)
(* search: properties                                                      *)
(***************************************************************************)
NoTwoResultsAlike ==
    \A i, j \in DOMAIN search_results :
        i # j => search_results[i].text # search_results[j].text

\* C21 (as claimed): the /search response never holds two results with the
\* same text nor more than top_k results; the results keep the order of the
\* hits, each being built from the first hit with its text.
C21_DeduplicationAsClaimed ==
    spc = "returned" =>
        /\ NoTwoResultsAlike
        /\ Len(search_results) <= top_k
        /\ \A i, j \in DOMAIN search_results :
               i < j => search_results[i].hit < search_results[j].hit
        /\ \A i \in DOMAIN search_results :
               /\ search_results[i].hit \in DOMAIN hits
               /\ \A h \in 1..(search_results[i].hit - 1) :
                      HitText(hits[h]) # HitText(hits[search_results[i].hit])

\* the same statement for hits none of which is trimmed
C21_HoldsWithoutTrimming ==
    (spc = "returned" /\ \A h \in DOMAIN hits : Len(HitText(hits[h])) <= TrimLimit) =>
        C21_DeduplicationAsClaimed

(***************************************************************************)
(* indexing worker (services/indexing/worker.py, indexing_service.py)      *)
(***************************************************************************)
MaxPages == 2       \* most pages of one extracted document
MaxPageChunks == 2  \* most chunks chunk_document makes of one page

\* a message body: what json.loads makes of it and which keys the event has
Body(json, payload, documentId, correlationId, metadata) ==
    [json |-> json, payload |-> payload, documentId |-> documentId,
     correlationId |-> correlationId, metadata |-> metadata]

Bodies ==
    { Body("invalid", "absent", FALSE, FALSE, FALSE),      \* b'{bad'
      Body("undecodable", "absent", FALSE, FALSE, FALSE),  \* b'\xff\xfe\xff'
      Body("number", "absent", FALSE, FALSE, FALSE),       \* b'5'
      Body("object", "absent", FALSE, TRUE, FALSE),        \* {"correlationId": ..}
      Body("object", "null", FALSE, TRUE, FALSE),          \* {"payload": null, ..}
      Body("object", "object", FALSE, TRUE, TRUE),         \* payload without documentId
      Body("object", "object", TRUE, FALSE, TRUE),         \* no correlationId
      Body("object", "object", TRUE, TRUE, FALSE),         \* payload without metadata
      Body("object", "object", TRUE, TRUE, TRUE) }         \* a DocumentExtracted event

PageLists == UNION {[1..n -> 0..MaxPageChunks] : n \in 0..MaxPages}

\* json.loads(body): the value, or the exception it raises
JsonLoads(b) ==
    CASE b.json = "invalid" -> "JSONDecodeError"
      [] b.json = "undecodable" -> "UnicodeDecodeError"
      [] OTHER -> "value"

\* "payload" not in event or "documentId" not in event.get("payload", {})
LacksDocumentId(b) ==
    CASE b.json = "number" -> "TypeError"       \* `in` on an int
      [] b.payload = "absent" -> "true"
      [] b.payload = "null" -> "TypeError"      \* `in` on None
      [] b.documentId -> "false"
      [] OTHER -> "true"

BasicAck == [method |-> "basic_ack", requeue |-> FALSE]
BasicNack(requeue) == [method |-> "basic_nack", requeue |-> requeue]

ChunksIndexed(chunk_count) == [type |-> "ChunksIndexed", chunkCount |-> chunk_count]
IndexingFailed == [type |-> "IndexingFailed", chunkCount |-> 0]

IndexInit ==
    /\ body \in Bodies
    /\ pages \in PageLists
    /\ page_no = 0
    /\ all_chunks = 0
    /\ stored = FALSE
    /\ indexing_calls = <<>>
    /\ published = <<>>
    /\ acks = <<>>
    /\ ipc = "delivered"
    /\ CoreIdle
    /\ SearchIdle
    /\ SessionIdle

\* worker.py lines 153-170 and 176-187: parse, validate, hand to the service
process_document_extracted ==
    /\ ipc = "delivered"
    /\ IF JsonLoads(body) = "JSONDecodeError"
         THEN acks' = Append(acks, BasicNack(FALSE)) /\ ipc' = "done"
       ELSE IF JsonLoads(body) # "value" \/ LacksDocumentId(body) = "TypeError"
         THEN acks' = Append(acks, BasicNack(TRUE)) /\ ipc' = "done"
       ELSE IF LacksDocumentId(body) = "true"
         THEN acks' = Append(acks, BasicNack(FALSE)) /\ ipc' = "done"
       ELSE acks' = acks /\ ipc' = "handle"
    /\ UNCHANGED <<body, pages, page_no, all_chunks, stored, indexing_calls, published>>
    /\ UNCHANGED notIndexVars

\* indexing_service.py lines 188-191
handle_document_extracted_event ==
    /\ ipc = "handle"
    /\ ipc' = IF body.correlationId THEN "read_pages" ELSE "except"
    /\ UNCHANGED <<body, pages, page_no, all_chunks, stored, indexing_calls, published, acks>>
    /\ UNCHANGED notIndexVars

\* lines 198-203: _read_pages, then event["payload"]["metadata"]
ReadPages ==
    /\ ipc = "read_pages"
    /\ indexing_calls' = Append(indexing_calls, "_read_pages")
    /\ \E ok \in BOOLEAN :
         IF ok /\ body.metadata
           THEN ipc' = "chunk" /\ page_no' = 1
           ELSE ipc' = "except" /\ page_no' = page_no
    /\ UNCHANGED <<body, pages, all_chunks, stored, published, acks>>
    /\ UNCHANGED notIndexVars

\* lines 209-223: one turn of the loop over the pages
ChunkPage ==
    /\ ipc = "chunk"
    /\ page_no <= Len(pages)
    /\ indexing_calls' = Append(indexing_calls, "chunk_document")
    /\ \E ok \in BOOLEAN :
         IF ok
           THEN /\ all_chunks' = all_chunks + pages[page_no]
                /\ page_no' = page_no + 1
                /\ ipc' = ipc
           ELSE /\ ipc' = "except"
                /\ UNCHANGED <<all_chunks, page_no>>
    /\ UNCHANGED <<body, pages, stored, published, acks>>
    /\ UNCHANGED notIndexVars

\* lines 229-231
GenerateEmbeddings ==
    /\ ipc = "chunk"
    /\ page_no > Len(pages)
    /\ indexing_calls' = Append(indexing_calls, "generate_embeddings")
    /\ \E ok \in BOOLEAN : ipc' = IF ok THEN "store" ELSE "except"
    /\ UNCHANGED <<body, pages, page_no, all_chunks, stored, published, acks>>
    /\ UNCHANGED notIndexVars

\* line 235
StoreChunksInQdrant ==
    /\ ipc = "store"
    /\ indexing_calls' = Append(indexing_calls, "store_chunks_in_qdrant")
    /\ \E ok \in BOOLEAN :
         /\ stored' = ok
         /\ ipc' = IF ok THEN "save_chunks" ELSE "except"
    /\ UNCHANGED <<body, pages, page_no, all_chunks, published, acks>>
    /\ UNCHANGED notIndexVars

\* line 238
SaveChunks ==
    /\ ipc = "save_chunks"
    /\ indexing_calls' = Append(indexing_calls, "_save_chunks")
    /\ \E ok \in BOOLEAN : ipc' = IF ok THEN "publish" ELSE "except"
    /\ UNCHANGED <<body, pages, page_no, all_chunks, stored, published, acks>>
    /\ UNCHANGED notIndexVars

\* line 241 and lines 449-464: _save_event, then event_broker.publish
publish_chunks_indexed_event ==
    /\ ipc = "publish"
    /\ indexing_calls' = Append(indexing_calls, "publish_chunks_indexed_event")
    /\ \E outcome \in {"published", "_save_event raises", "publish raises"} :
         IF outcome = "published"
           THEN /\ published' = Append(published, ChunksIndexed(all_chunks))
                /\ ipc' = "handled"
           ELSE /\ published' = published
                /\ ipc' = "except"
    /\ UNCHANGED <<body, pages, page_no, all_chunks, stored, acks>>
    /\ UNCHANGED notIndexVars

\* lines 245-249 and 475-495: the except clause; a failure in it is logged only
publish_indexing_failed_event ==
    /\ ipc = "except"
    /\ indexing_calls' = Append(indexing_calls, "_publish_indexing_failed_event")
    /\ \E ok \in BOOLEAN :
         published' = IF body.correlationId /\ ok
                        THEN Append(published, IndexingFailed)
                        ELSE published
    /\ ipc' = "handled"
    /\ UNCHANGED <<body, pages, page_no, all_chunks, stored, acks>>
    /\ UNCHANGED notIndexVars

\* worker.py lines 172-174: the service returned
AckDelivery ==
    /\ ipc = "handled"
    /\ acks' = Append(acks, BasicAck)
    /\ ipc' = "done"
    /\ UNCHANGED <<body, pages, page_no, all_chunks, stored, indexing_calls, published>>
    /\ UNCHANGED notIndexVars

IndexNext ==
    \/ process_document_extracted
    \/ handle_document_extracted_event
    \/ ReadPages
    \/ ChunkPage
    \/ GenerateEmbeddings
    \/ StoreChunksInQdrant
    \/ SaveChunks
    \/ publish_chunks_indexed_event
    \/ publish_indexing_failed_event
    \/ AckDelivery

IndexSpec == IndexInit /\ [][IndexNext]_vars

(***************************************************************************)
(* indexing worker: properties                                             *)
(***************************************************************************)
RECURSIVE SumFrom(_, _)
SumFrom(counts, i) == IF i > Len(counts) THEN 0 ELSE counts[i] + SumFrom(counts, i + 1)

CallCount(name) == Cardinality({i \in DOMAIN indexing_calls : indexing_calls[i] = name})
PublishedOf(type) == {i \in DOMAIN published : published[i].type = type}

\* handle_document_extracted_event was called and has returned
EventHandled == ipc = "handled" \/ (ipc = "done" /\ indexing_calls # <<>>)

\* what a successful run of the handler leaves behind
IndexedOnce ==
    /\ CallCount("_read_pages") = 1
    /\ CallCount("chunk_document") = Len(pages)
    /\ CallCount("generate_embeddings") = 1
    /\ CallCount("store_chunks_in_qdrant") = 1
    /\ published = <<ChunksIndexed(SumFrom(pages, 1))>>

\* C22 (as claimed): a handled DocumentExtracted event either chunks every
\* page once, embeds and stores once and publishes exactly one ChunksIndexed
\* carrying the total chunk count, or, a step having failed, publishes
\* IndexingFailed instead; never both, and never IndexingFailed for a
\* document whose chunks were stored.
C22_IndexingOutcomeAsClaimed ==
    EventHandled =>
        /\ IndexedOnce \/ (PublishedOf("ChunksIndexed") = {} /\ PublishedOf("IndexingFailed") # {})
        /\ PublishedOf("ChunksIndexed") = {} \/ PublishedOf("IndexingFailed") = {}
        /\ PublishedOf("IndexingFailed") # {} => ~stored

\* the part of C22 the handler keeps: at most one event, a ChunksIndexed only
\* after every step ran once, with the total count
C22_SuccessPathHolds ==
    EventHandled =>
        /\ Len(published) <= 1
        /\ PublishedOf("ChunksIndexed") # {} => IndexedOnce /\ stored

\* the body parses as JSON / the parsed event has payload.documentId
ValidJson(b) == b.json \in {"number", "object"}
HasDocumentId(b) == b.json = "object" /\ b.payload = "object" /\ b.documentId

\* C26 (as claimed): every delivery gets exactly one basic_ack or basic_nack;
\* a body that is not valid JSON or lacks payload.documentId is nacked
\* without requeue, a document whose indexing fails is nacked with requeue,
\* and a delivery is acked only when its document was indexed.
C26_AckOrNackAsClaimed ==
    ipc = "done" =>
        /\ Len(acks) = 1
        /\ ~(ValidJson(body) /\ HasDocumentId(body)) => acks = <<BasicNack(FALSE)>>
        /\ (EventHandled /\ ~IndexedOnce) => acks = <<BasicNack(TRUE)>>
        /\ acks = <<BasicAck>> => IndexedOnce

\* the part of C26 the worker keeps: one answer per delivery, and an event
\* without payload.documentId never reaches the service
C26_OneAnswerHolds ==
    /\ ipc = "done" =>
         /\ Len(acks) = 1
         /\ (body.json = "invalid"
               \/ (body.json = "object" /\ body.payload # "null" /\ ~HasDocumentId(body)))
              => acks = <<BasicNack(FALSE)>>
         /\ EventHandled => acks = <<BasicAck>>
    /\ indexing_calls # <<>> => HasDocumentId(body)

(***************************************************************************)
(* session check of the chat service (chat_service.py, validate_session)   *)
(***************************************************************************)
BearerPrefix == <<"B", "e", "a", "r", "e", "r", " ">>

\* the Authorization headers a request comes with: none, another scheme,
\* the scheme in lower case, a bearer token
Authorizations ==
    { <<>>,
      <<"B", "a", "s", "i", "c", " ", "t">>,
      <<"b", "e", "a", "r", "e", "r", " ", "t">>,
      <<"B", "e", "a", "r", "e", "r", " ", "t">> }

\* redis_client.get raises, returns None, returns text that is not JSON, or
\* returns the stored session
StoreOutcomes == {"raises", "none", "corrupted", "valid"}

StoredUser == [user_id |-> "u1", email |-> "e1"]

HttpError(status, detail) == [status |-> status, detail |-> detail, user |-> NoUser]
SessionOf(user) == [status |-> 200, detail |-> "", user |-> user]

\* HTTPException(status_code=400, detail="Query cannot be empty")
Http400 == [status |-> "bad_request", answer |-> <<>>, citations |-> <<>>, results |-> <<>>]

\* the body of the try block, lines 64-72: the exception it raises or the
\* dict it returns
SessionLookup(st) ==
    CASE st = "raises" -> [raised |-> "Exception", value |-> NoSession]
      [] st = "none" -> [raised |-> "HTTPException",
                         value |-> HttpError(401, "Invalid or expired session")]
      [] st = "corrupted" -> [raised |-> "JSONDecodeError", value |-> NoSession]
      [] OTHER -> [raised |-> "", value |-> SessionOf(StoredUser)]

\* lines 64-77: the try block with its except clauses; HTTPException is an
\* Exception, so the clause of line 75 catches the one raised at line 68
LookupAnswer(st) ==
    CASE SessionLookup(st).raised = "" -> SessionLookup(st).value
      [] SessionLookup(st).raised = "JSONDecodeError" -> HttpError(500, "Session data corrupted")
      [] OTHER -> HttpError(500, "Session validation failed")

SessionInit ==
    /\ authorization \in Authorizations
    /\ store \in StoreOutcomes
    /\ token = <<>>
    /\ session = NoSession
    /\ vpc = "header"
    /\ CoreIdle
    /\ SearchIdle
    /\ IndexIdle

\* lines 56-62
CheckHeader ==
    /\ vpc = "header"
    /\ IF authorization = <<>>
         THEN /\ session' = HttpError(401, "Authorization header required")
              /\ vpc' = "rejected"
              /\ token' = token
       ELSE IF ~OccursAt(authorization, BearerPrefix, 1)
         THEN /\ session' = HttpError(401, "Invalid authorization format")
              /\ vpc' = "rejected"
              /\ token' = token
       ELSE /\ token' = Replace(authorization, BearerPrefix, <<>>)
            /\ vpc' = "lookup"
            /\ session' = session
    /\ UNCHANGED <<authorization, store>>
    /\ UNCHANGED <<notSessionVars, pipeVars>>

\* lines 64-77
LookupSession ==
    /\ vpc = "lookup"
    /\ session' = LookupAnswer(store)
    /\ vpc' = IF LookupAnswer(store).status = 200 THEN "validated" ELSE "rejected"
    /\ UNCHANGED <<authorization, store, token>>
    /\ UNCHANGED <<notSessionVars, pipeVars>>

\* lines 126-160 (339-349): the dependency returned, the endpoint's body
\* begins; chat refuses a blank query
EnterEndpoint ==
    /\ vpc = "validated"
    /\ ppc = "idle"
    /\ endpoint' \in {"chat", "compare"}
    /\ reformulation' \in BOOLEAN
    /\ models' \in {COMPARISON_MODELS(n) : n \in 1..MaxModels}
    /\ query' \in Queries \cup {<<" ">>}
    /\ IF endpoint' = "chat" /\ Strip(query') = <<>>
         THEN response' = Http400 /\ ppc' = "failed"
         ELSE response' = response /\ ppc' = "publish_start"
    /\ vpc' = "entered"
    /\ UNCHANGED <<search_query, retrieved, prompt, futures, results, events, calls>>
    /\ UNCHANGED <<authorization, store, token, session>>
    /\ UNCHANGED notSessionVars

SessionNext ==
    \/ CheckHeader
    \/ LookupSession
    \/ EnterEndpoint
    \/ PipelineNext

SessionSpec == SessionInit /\ [][SessionNext]_vars

(***************************************************************************)
(* session check: properties                                               *)
(***************************************************************************)
SessionChecked == vpc \in {"rejected", "validated", "entered"}

\* the header is there and starts with "Bearer "
IsBearer(a) == Len(a) >= 7 /\ SubSeq(a, 1, 7) = BearerPrefix

\* reformulation, retrieval, generation or event publishing has begun
WorkStarted == calls # <<>> \/ events # <<>> \/ ppc \notin {"idle", "publish_start", "failed"}

\* C30 (as claimed): validate_session answers 401 when the header is
\* missing, when it does not start with "Bearer ", and when no session is
\* stored for the token ("Invalid or expired session"); 500 only when the
\* stored data is corrupted or the store fails; the stored user_id and email
\* otherwise; and no chat or comparison work starts before it succeeded.
C30_SessionCheckAsClaimed ==
    /\ SessionChecked =>
         /\ ~IsBearer(authorization) => session.status = 401
         /\ (IsBearer(authorization) /\ store = "none") =>
                session = HttpError(401, "Invalid or expired session")
         /\ session.status = 500 => store \in {"corrupted", "raises"}
         /\ session.status \notin {401, 500} => session = SessionOf(StoredUser)
    /\ (WorkStarted \/ ppc # "idle") => session.status = 200

\* the rest of C30 holds: only the answer to a token without session differs
C30_HoldsButForNoSession ==
    /\ SessionChecked =>
         /\ ~IsBearer(authorization) => session.status = 401
         /\ session.status = 500 => (IsBearer(authorization) /\ store \in {"corrupted", "raises", "none"})
         /\ session.status \notin {401, 500} =>
                (session = SessionOf(StoredUser) /\ IsBearer(authorization) /\ store = "valid")
    /\ (WorkStarted \/ ppc # "idle") => (vpc = "entered" /\ session.status = 200)

(***************************************************************************)
(* chunk_document: properties                                              *)
(***************************************************************************)
\* ceil(a / b) for a >= 0, b > 0
CeilDiv(a, b) == (a + b - 1) \div b

ValidParams == 0 <= overlap_tokens /\ overlap_tokens < max_tokens

\* the decoded, stripped text of the slice <<start, end>>
WindowText(w) == Strip(Decode(Slice(tokens, w[1], w[2])))

IsBlank(w) == \A c \in Range(Decode(Slice(tokens, w[1], w[2]))) : c \in Whitespace

NonBlankWindows == SelectSeq(windows, LAMBDA w : ~IsBlank(w))

\* C6 (as claimed): for L > maxTokens and 0 < overlapTokens < maxTokens, with
\* every window decoding to non-empty text, chunk_document returns exactly
\* ceil((L - overlapTokens) / (maxTokens - overlapTokens)) chunks.
C6_WindowCountAsClaimed ==
    (/\ cpc = "done"
     /\ Len(tokens) > max_tokens
     /\ 0 < overlap_tokens /\ overlap_tokens < max_tokens
     /\ \A k \in DOMAIN windows : ~IsBlank(windows[k]))
    => Len(chunks) = CeilDiv(Len(tokens) - overlap_tokens, max_tokens - overlap_tokens)

\* C7 (as claimed): chunk_document terminates for every input: every pass of
\* the loop moves start_idx strictly towards len(tokens); a call with
\* overlapTokens >= maxTokens never gets to run a pass that does not.
C7_EveryPassAdvances == [][ChunkWindow => start_idx' > start_idx]_vars

\* C8 (as claimed): for 1 <= L <= maxTokens and 0 <= overlapTokens < maxTokens
\* (and a text that is not blank) chunk_document returns exactly one chunk,
\* the decoding of the whole token sequence [0:L].
C8_ShortTextOneChunkAsClaimed ==
    (/\ cpc = "done"
     /\ 1 <= Len(tokens) /\ Len(tokens) <= max_tokens
     /\ ValidParams
     /\ Strip(Decode(tokens)) # <<>>)
    => /\ Len(chunks) = 1
       /\ chunks[1].text = Strip(Decode(tokens))

\* C9: for 0 <= overlapTokens < maxTokens, when chunk_document returns, every
\* token index of [0, L) lies in a visited window, no window holds more than
\* maxTokens tokens, and the window starts are exactly the multiples of
\* maxTokens - overlapTokens below L, in increasing order.
C9_WindowCoverage ==
    (cpc = "done" /\ ValidParams) =>
        LET step == max_tokens - overlap_tokens
            L == Len(tokens)
        IN /\ \A i \in 0..(L - 1) :
                \E k \in DOMAIN windows : windows[k][1] <= i /\ i < windows[k][2]
           /\ \A k \in DOMAIN windows :
                /\ windows[k][2] - windows[k][1] <= max_tokens
                /\ Len(Slice(tokens, windows[k][1], windows[k][2])) <= max_tokens
           /\ {windows[k][1] : k \in DOMAIN windows} = {m \in 0..L : m < L /\ m % step = 0}
           /\ \A k \in DOMAIN windows : windows[k][1] = (k - 1) * step

C9_Witness ==
    /\ cpc = "done" /\ ValidParams
    /\ overlap_tokens > 0
    /\ Len(tokens) > max_tokens
    /\ Len(windows) >= 3

\* C10: zero tokens give zero chunks; a window whose decoded text is empty
\* or whitespace-only emits no chunk; every other window visited so far has
\* emitted its chunk, in window order, each with a metadata dict of its own
\* (a fresh object, equal in content to the caller's).
C10_BlankWindowsDropped ==
    /\ Len(tokens) = 0 => chunks = <<>>
    /\ Len(chunks) = Len(NonBlankWindows)
    /\ \A k \in DOMAIN chunks :
        /\ chunks[k].text = WindowText(NonBlankWindows[k])
        /\ chunks[k].text # <<>>
        /\ chunks[k].metadata # CallerMetadata
        /\ heap[chunks[k].metadata] = heap[CallerMetadata]
        /\ \A j \in DOMAIN chunks : j # k => chunks[j].metadata # chunks[k].metadata

C10_Witness ==
    /\ cpc = "done"
    /\ Len(chunks) >= 2
    /\ \E j, k \in DOMAIN windows : j < k /\ IsBlank(windows[j]) /\ ~IsBlank(windows[k])
    /\ \E k \in DOMAIN windows : IsBlank(windows[k]) /\ windows[k][2] = Len(tokens)

====
